---- MODULE Spec2Model ----
(***************************************************************************)
(* Verification model of the Cactus chess engine (Water-Engine/cactus):    *)
(* position representation with incremental make/unmake, legal-move        *)
(* generator, iterative-deepening searcher and the UCI controller with its *)
(* search worker.                                                          *)
(*                                                                         *)
(* Conventions.                                                            *)
(*  - A bitboard (u64) is the set of the squares whose bit is set.         *)
(*  - A Zobrist key is the set of the table entries XORed into it; the     *)
(*    table entries are independent random 64-bit words, so XOR is the     *)
(*    symmetric difference.  Entries that the tables leave at 0 (castling  *)
(*    index 0, en-passant index 0, piece rows 0, 7, 8, and every entry of  *)
(*    Zobrist::default()) contribute nothing.                              *)
(*  - A string is the tuple of its characters; a FEN or a command line     *)
(*    that the code splits on ' ' is the tuple of its sections.            *)
(*  - A Rust panic ends the thread that runs the operation: operators      *)
(*    return a record with an ok field, and ok = FALSE is a panic.         *)
(***************************************************************************)
EXTENDS Integers, Sequences, FiniteSets, TLC

\* ------------------------------------------------------------------ bounds
MaxMade == 2

MaxCmds == 4

MaxIterations == 3

\* searches started in one run
MaxSearches == 2

\* null moves made one after the other
MaxNulls == 2

\* depth of the move trees whose leaves are counted
MaxPerftDepth == 3

\* ------------------------------------------------------------- piece codes
NONE == 0

PAWN == 1

KNIGHT == 2

BISHOP == 3

ROOK == 4

QUEEN == 5

KING == 6

WHITE == 0

BLACK == 8

MAX_PIECE_INDEX == 14

PIECE_INDICES == {1, 2, 3, 4, 5, 6, 9, 10, 11, 12, 13, 14}

get_type(p) == p % 8

get_color(p) == (p \div 8) * 8

is_color(p, color) == get_color(p) = color /\ p # 0

is_white(p) == is_color(p, WHITE)

PieceOf(type, color) == type + color

\* Piece::from(char): the type named by a FEN letter, NONE for anything else
PieceFromChar(c) ==
    CASE c \in {"R", "r"} -> ROOK
      [] c \in {"N", "n"} -> KNIGHT
      [] c \in {"B", "b"} -> BISHOP
      [] c \in {"Q", "q"} -> QUEEN
      [] c \in {"K", "k"} -> KING
      [] c \in {"P", "p"} -> PAWN
      [] OTHER -> NONE

can_ortho_slide(p) == get_type(p) \in {QUEEN, ROOK}

can_diag_slide(p) == get_type(p) \in {QUEEN, BISHOP}

\* Color enum (White = 0, Black = 1) and Color::to_piece_color
ColorWhite == 0

ColorBlack == 1

to_piece_color(c) == IF c = ColorWhite THEN WHITE ELSE BLACK

\* ----------------------------------------------------------------- squares
Squares == 0..63

A1 == 0

C1 == 2

G1 == 6

H1 == 7

A8 == 56

C8 == 58

G8 == 62

H8 == 63

file_of_square(s) == s % 8

rank_of_square(s) == s \div 8

is_valid_square(f, r) == f >= 0 /\ f < 8 /\ r >= 0 /\ r < 8

CoordIndex(f, r) == r * 8 + f

FILE_NAMES == <<"a", "b", "c", "d", "e", "f", "g", "h">>

RANK_NAMES == <<"1", "2", "3", "4", "5", "6", "7", "8">>

Range(s) == {s[i] : i \in DOMAIN s}

\* position of the first element of names that occurs in str, 0-based; -1 if none
FirstContained(names, str) ==
    IF \E i \in DOMAIN names : names[i] \in Range(str)
    THEN (CHOOSE i \in DOMAIN names :
              /\ names[i] \in Range(str)
              /\ \A j \in DOMAIN names : names[j] \in Range(str) => i <= j) - 1
    ELSE -1

\* Coord::from_string
Coord_from_string(name) ==
    [file_idx |-> FirstContained(FILE_NAMES, name),
     rank_idx |-> FirstContained(RANK_NAMES, name)]

\* Coord::to_string
Coord_to_string(s) == <<FILE_NAMES[file_of_square(s) + 1], RANK_NAMES[rank_of_square(s) + 1]>>

\* --------------------------------------------------------------- bitboards
XorSet(a, b) == (a \ b) \cup (b \ a)

toggle_square(bb, s) == XorSet(bb, {s})

toggle_squares(bb, ss) == XorSet(bb, ss)

\* BitBoard::shift on u64: bits shifted out of the word are lost
shift(bb, n) == {s + n : s \in bb} \cap Squares

NOT_A_FILE == {s \in Squares : file_of_square(s) # 0}

NOT_H_FILE == {s \in Squares : file_of_square(s) # 7}

RankMask(r) == {s \in Squares : rank_of_square(s) = r}

pawn_attacks(pawn_bb, white) ==
    IF white
    THEN (shift(pawn_bb, 9) \cap NOT_A_FILE) \cup (shift(pawn_bb, 7) \cap NOT_H_FILE)
    ELSE (shift(pawn_bb, -7) \cap NOT_A_FILE) \cup (shift(pawn_bb, -9) \cap NOT_H_FILE)

WHITE_KINGSIDE_MASK == {5, 6}

BLACK_KINGSIDE_MASK == {61, 62}

WHITE_QUEENSIDE_MASK2 == {3, 2}

BLACK_QUEENSIDE_MASK2 == {59, 58}

WHITE_QUEENSIDE_MASK == WHITE_QUEENSIDE_MASK2 \cup {1}

BLACK_QUEENSIDE_MASK == BLACK_QUEENSIDE_MASK2 \cup {57}

KING_DIRS == {<<-1, 0>>, <<0, 1>>, <<1, 0>>, <<0, -1>>, <<-1, -1>>, <<-1, 1>>, <<1, 1>>, <<1, -1>>}

KNIGHT_JUMPS == {<<-2, -1>>, <<-2, 1>>, <<-1, 2>>, <<1, 2>>, <<2, 1>>, <<2, -1>>, <<1, -2>>, <<-1, -2>>}

Offsets(s, deltas) ==
    {CoordIndex(file_of_square(s) + d[1], rank_of_square(s) + d[2]) :
        d \in {e \in deltas : is_valid_square(file_of_square(s) + e[1], rank_of_square(s) + e[2])}}

\* BitBoard::process_square: the tables behind get_bb_utility()
king_moves(s) == Offsets(s, KING_DIRS)

knight_attacks(s) == Offsets(s, KNIGHT_JUMPS)

\* all four table writes use (x + 1, y + 1)
white_pawn_attacks(s) == Offsets(s, {<<1, 1>>})

black_pawn_attacks(s) == Offsets(s, {<<1, 1>>})

\* ------------------------------------------------------------ magic tables
ROOK_DIRECTIONS == {<<-1, 0>>, <<1, 0>>, <<0, 1>>, <<0, -1>>}

BISHOP_DIRECTIONS == {<<-1, 1>>, <<1, 1>>, <<1, -1>>, <<-1, -1>>}

\* squares of one ray from s, nearest first, as the set of those within dst steps
RaySquare(s, d, dst) == CoordIndex(file_of_square(s) + d[1] * dst, rank_of_square(s) + d[2] * dst)

RayValid(s, d, dst) == is_valid_square(file_of_square(s) + d[1] * dst, rank_of_square(s) + d[2] * dst)

\* Magic::create_movement_mask: the ray squares whose successor is still on the board
create_movement_mask(s, ortho) ==
    LET dirs == IF ortho THEN ROOK_DIRECTIONS ELSE BISHOP_DIRECTIONS
    IN  {RaySquare(s, d[1], d[2]) :
            d \in {e \in dirs \X (1..7) : RayValid(s, e[1], e[2] + 1)}}

\* Magic::legal_move_bb: each ray up to and including the first blocker
legal_move_bb(s, blocker_bb, ortho) ==
    LET dirs == IF ortho THEN ROOK_DIRECTIONS ELSE BISHOP_DIRECTIONS
    IN  {RaySquare(s, d[1], d[2]) :
            d \in {e \in dirs \X (1..7) :
                      /\ RayValid(s, e[1], e[2])
                      /\ \A k \in 1..(e[2] - 1) : RaySquare(s, e[1], k) \notin blocker_bb}}

\* Magic::get_rook_attacks / get_bishop_attacks: the table entry of the masked
\* blockers, which create_table filled with legal_move_bb of that pattern
get_rook_attacks(s, blockers) ==
    legal_move_bb(s, blockers \cap create_movement_mask(s, TRUE), TRUE)

get_bishop_attacks(s, blockers) ==
    legal_move_bb(s, blockers \cap create_movement_mask(s, FALSE), FALSE)

get_slider_attacks(s, blockers, ortho) ==
    IF ortho THEN get_rook_attacks(s, blockers) ELSE get_bishop_attacks(s, blockers)

\* ------------------------------------------------------------------- moves
NO_FLAG == 0

EN_PASSANT_CAPTURE_FLAG == 1

CASTLE_FLAG == 2

PAWN_TWO_UP_FLAG == 3

PROMOTE_TO_QUEEN_FLAG == 4

PROMOTE_TO_KNIGHT_FLAG == 5

PROMOTE_TO_ROOK_FLAG == 6

PROMOTE_TO_BISHOP_FLAG == 7

\* Move::from((start, target, flag)): (start | target << 6 | flag << 12) as u16.
\* The fields of a move do not overlap, so the word is their sum; a negative
\* target (from_uci on an unparsable square) has every bit from 6 up set once
\* shifted, whatever the flag is.
MoveFrom(start, target, flag) ==
    IF target >= 0 THEN (start + target * 64 + flag * 4096) % 65536
    ELSE start + (target % 1024) * 64

NullMove == 0

start_square(mv) == mv % 64

target_square(mv) == (mv \div 64) % 64

move_flag(mv) == mv \div 4096

is_promotion(mv) == move_flag(mv) >= PROMOTE_TO_QUEEN_FLAG

\* ------------------------------------------------------------------ helpers
RECURSIVE SortedSeq(_)
\* the elements of a set of integers in ascending order (the order of pop_lsb)
SortedSeq(S) ==
    IF S = {} THEN <<>>
    ELSE LET m == CHOOSE x \in S : \A y \in S : x <= y
         IN  <<m>> \o SortedSeq(S \ {m})

IndexOf(seq, x) == CHOOSE i \in DOMAIN seq : seq[i] = x

Digits == <<"0", "1", "2", "3", "4", "5", "6", "7", "8", "9">>

IsDigit(c) == c \in Range(Digits)

DigitValue(c) == IndexOf(Digits, c) - 1

IsUpper(c) == c \in {"R", "N", "B", "Q", "K", "P", "X", "W"}

RECURSIVE ParseDigits(_, _)
ParseDigits(str, acc) ==
    IF str = <<>> THEN acc ELSE ParseDigits(Tail(str), acc * 10 + DigitValue(Head(str)))

\* str.parse().unwrap_or(0) for an unsigned decimal
ParseOrZero(str) ==
    IF str # <<>> /\ \A i \in DOMAIN str : IsDigit(str[i]) THEN ParseDigits(str, 0) ELSE 0

\* ----------------------------------------------------------------- Zobrist
SideToken == 1000

PieceToken(p, s) == p * 64 + s

CastleToken(r) == 1100 + r

EpToken(f) == 1200 + f

\* Zobrist::default(): every table entry is 0; Zobrist::new(): seeded tables
ZobristDefault == [key |-> {}, seeded |-> FALSE]

ZobristNew == [key |-> {}, seeded |-> TRUE]

\* the table words, as the set of tokens they XOR into a key
ZSide(z) == IF z.seeded THEN {SideToken} ELSE {}

ZPiece(z, p, s) == IF z.seeded /\ p \in PIECE_INDICES THEN {PieceToken(p, s)} ELSE {}

ZCastle(z, r) == IF z.seeded /\ r # 0 THEN {CastleToken(r)} ELSE {}

ZEp(z, f) == IF z.seeded /\ f # 0 THEN {EpToken(f)} ELSE {}

\* Zobrist::key: XOR of the piece keys of the occupied squares, nothing else
Zobrist_key(z, squares) ==
    [z EXCEPT !.key = UNION {ZPiece(z, squares[s], s) : s \in {t \in Squares : get_type(squares[t]) # NONE}}]

\* ------------------------------------------------------------------- State
StateNew(captured, ep, castling, halfmove, zobrist) ==
    [captured_piece_type |-> captured, en_passant_file |-> ep,
     castling_rights |-> castling, halfmove_clock |-> halfmove, zobrist |-> zobrist]

StateDefault == StateNew(0, 0, 0, 0, ZobristDefault)

CLEAR_WHITE_KINGSIDE_MASK == 14

CLEAR_WHITE_QUEENSIDE_MASK == 13

CLEAR_BLACK_KINGSIDE_MASK == 11

CLEAR_BLACK_QUEENSIDE_MASK == 7

\* bitwise and of two 4-bit values
And4(a, b) ==
    LET bit(x, i) == (x \div (2 ^ i)) % 2
    IN  bit(a, 0) * bit(b, 0) + 2 * bit(a, 1) * bit(b, 1)
        + 4 * bit(a, 2) * bit(b, 2) + 8 * bit(a, 3) * bit(b, 3)

can_castle_kingside(st, white) == And4(st.castling_rights, IF white THEN 1 ELSE 4) # 0

can_castle_queenside(st, white) == And4(st.castling_rights, IF white THEN 2 ELSE 8) # 0

\* --------------------------------------------------------------- PieceList
PieceListNew ==
    [occupied_squares |-> [i \in 0..15 |-> 0], map |-> [s \in Squares |-> 0], num_pieces |-> 0]

\* the indexing occupied_squares[num_pieces] panics on a full list
add_piece(pl, square) ==
    IF pl.num_pieces > 15 THEN [ok |-> FALSE, pl |-> pl]
    ELSE [ok |-> TRUE,
          pl |-> [occupied_squares |-> [pl.occupied_squares EXCEPT ![pl.num_pieces] = square],
                  map |-> [pl.map EXCEPT ![square] = pl.num_pieces],
                  num_pieces |-> pl.num_pieces + 1]]

\* num_pieces - 1 on an empty list underflows: a panic with overflow checks, and
\* an index past the array (also a panic) without them
remove_piece(pl, square) ==
    IF pl.num_pieces = 0 THEN [ok |-> FALSE, pl |-> pl]
    ELSE LET idx == pl.map[square]
             moved == pl.occupied_squares[pl.num_pieces - 1]
         IN  [ok |-> TRUE,
              pl |-> [occupied_squares |-> [pl.occupied_squares EXCEPT ![idx] = moved],
                      map |-> [pl.map EXCEPT ![moved] = idx],
                      num_pieces |-> pl.num_pieces - 1]]

PieceList_move_piece(pl, start, target) ==
    LET idx == pl.map[start]
    IN  [pl EXCEPT !.occupied_squares[idx] = target, !.map[target] = idx]

\* the squares a list enumerates: occupied_squares[0 .. count())
ListSquares(pl) == [i \in 1..pl.num_pieces |-> pl.occupied_squares[i - 1]]

\* --------------------------------------------------------------------- FEN
PositionInfoOf(squares, wk, wq, bk, bq, ep, wtm, hm, mc) ==
    [squares |-> squares, white_castle_kingside |-> wk, white_castle_queenside |-> wq,
     black_castle_kingside |-> bk, black_castle_queenside |-> bq, ep_file |-> ep,
     white_to_move |-> wtm, halfmove_clock |-> hm, move_count |-> mc]

PositionInfoDefault ==
    PositionInfoOf([s \in Squares |-> 0], FALSE, FALSE, FALSE, FALSE, 0, FALSE, 0, 0)

RECURSIVE ParsePlacement(_, _, _, _, _)
\* the for_each over sections[0] of PositionInfo::new; file and rank are usize:
\* rank -= 1 at rank 0 panics with overflow checks and wraps without them (the
\* wrapped value is kept as -1: rank * 8 + file is computed modulo 2^64)
ParsePlacement(chars, file, rank, sq, checks) ==
    IF chars = <<>> THEN [ok |-> TRUE, squares |-> sq]
    ELSE LET symbol == Head(chars)
         IN  IF symbol = "/"
             THEN IF rank = 0 /\ checks THEN [ok |-> FALSE, squares |-> sq]
                  ELSE ParsePlacement(Tail(chars), 0, rank - 1, sq, checks)
             ELSE IF IsDigit(symbol)
             THEN ParsePlacement(Tail(chars), file + DigitValue(symbol), rank, sq, checks)
             ELSE LET piece_color == IF IsUpper(symbol) THEN WHITE ELSE BLACK
                      idx == rank * 8 + file
                  IN  IF idx \notin Squares THEN [ok |-> FALSE, squares |-> sq]
                      ELSE ParsePlacement(Tail(chars), file + 1, rank,
                               [sq EXCEPT ![idx] = PieceFromChar(symbol) + piece_color], checks)

RECURSIVE SplitFrom(_, _, _)
SplitFrom(str, sep, cur) ==
    IF str = <<>> THEN <<cur>>
    ELSE IF Head(str) = sep THEN <<cur>> \o SplitFrom(Tail(str), sep, <<>>)
    ELSE SplitFrom(Tail(str), sep, Append(cur, Head(str)))

\* str.split(sep): the pieces between separators, empty pieces included
Split(str, sep) == SplitFrom(str, sep, <<>>)

\* PositionInfo::new on the characters of the FEN.  result: "ok", "err" (Err
\* returned) or "panic"
PositionInfo_new(fen, checks) ==
    LET sections == Split(fen, " ")
    IN  IF Len(sections) < 3 THEN [result |-> "err", info |-> PositionInfoDefault]
        ELSE LET placed == ParsePlacement(sections[1], 0, 7, [s \in Squares |-> 0], checks)
                 castling == Range(sections[3])
                 ep_file == IF /\ Len(sections) > 3
                               /\ sections[4] # <<>>
                               /\ sections[4][1] \in Range(FILE_NAMES)
                            THEN IndexOf(FILE_NAMES, sections[4][1]) - 1 ELSE 0
                 halfmove == IF Len(sections) > 4 THEN ParseOrZero(sections[5]) ELSE 0
                 move_count == IF Len(sections) > 5 THEN ParseOrZero(sections[6]) ELSE 0
             IN  IF ~placed.ok THEN [result |-> "panic", info |-> PositionInfoDefault]
                 ELSE [result |-> "ok",
                       info |-> PositionInfoOf(placed.squares, "K" \in castling,
                                    "Q" \in castling, "k" \in castling, "q" \in castling,
                                    ep_file, sections[2] = <<"w">>, halfmove, move_count)]

\* ------------------------------------------------------------------- Board
\* Board::new.  The per-type lists rooks .. pawns are separate copies of empty
\* lists (PieceList is Copy); nothing ever writes to them afterwards.
BoardNew ==
    [squares |-> [s \in Squares |-> 0],
     king_squares |-> [c \in 0..1 |-> 0],
     piece_bbs |-> [p \in 0..MAX_PIECE_INDEX |-> {}],
     color_bbs |-> [c \in 0..1 |-> {}],
     all_piece_bb |-> {},
     friendly_ortho_slider_bb |-> {},
     friendly_diag_slider_bb |-> {},
     enemy_ortho_slider_bb |-> {},
     enemy_diag_slider_bb |-> {},
     total_heavy_material |-> 0,
     rooks |-> [c \in 0..1 |-> PieceListNew],
     bishops |-> [c \in 0..1 |-> PieceListNew],
     queens |-> [c \in 0..1 |-> PieceListNew],
     knights |-> [c \in 0..1 |-> PieceListNew],
     pawns |-> [c \in 0..1 |-> PieceListNew],
     white_to_move |-> TRUE,
     repetition_history |-> <<>>,
     ply_count |-> 0,
     state |-> StateDefault,
     all_moves |-> <<>>,
     all_piece_lists |-> [p \in 0..MAX_PIECE_INDEX |-> PieceListNew],
     game_state_history |-> <<>>,
     start_pos_info |-> PositionInfoDefault,
     cached_in_check_value |-> FALSE,
     has_cached_in_check_value |-> FALSE]

move_color(b) == IF b.white_to_move THEN ColorWhite ELSE ColorBlack

opponent_color(b) == IF b.white_to_move THEN ColorBlack ELSE ColorWhite

\* Board::update_slider_bbs
update_slider_bbs(b) ==
    LET fc == to_piece_color(move_color(b))
        ec == to_piece_color(opponent_color(b))
    IN  [b EXCEPT
           !.friendly_ortho_slider_bb = b.piece_bbs[ROOK + fc] \cup b.piece_bbs[QUEEN + fc],
           !.friendly_diag_slider_bb = b.piece_bbs[BISHOP + fc] \cup b.piece_bbs[QUEEN + fc],
           !.enemy_ortho_slider_bb = b.piece_bbs[ROOK + ec] \cup b.piece_bbs[QUEEN + ec],
           !.enemy_diag_slider_bb = b.piece_bbs[BISHOP + ec] \cup b.piece_bbs[QUEEN + ec]]

\* Board::move_piece
Board_move_piece(b, piece, start, target) ==
    LET mc == move_color(b)
    IN  [b EXCEPT
           !.piece_bbs[piece] = toggle_squares(@, {start, target}),
           !.color_bbs[mc] = toggle_squares(@, {start, target}),
           !.all_piece_lists[piece] = PieceList_move_piece(@, start, target),
           !.squares = [@ EXCEPT ![start] = NONE, ![target] = piece]]

\* Board::load_from_position.  Kings are not added to a piece list; a list that
\* would hold more than 16 squares panics in add_piece.
load_from_position(position) ==
    LET sq == position.squares
        occ(p) == {s \in Squares : sq[s] = p /\ get_type(p) # NONE}
        listing == [q \in 0..MAX_PIECE_INDEX |->
                       IF get_type(q) = KING THEN <<>> ELSE SortedSeq(occ(q))]
        listed(p) == listing[p]
        list(p) ==
            [occupied_squares |-> [i \in 0..15 |-> IF i < Len(listed(p)) THEN listed(p)[i + 1] ELSE 0],
             map |-> [s \in Squares |-> IF s \in Range(listed(p)) THEN IndexOf(listed(p), s) - 1 ELSE 0],
             num_pieces |-> Len(listed(p))]
        colorOf(p) == IF is_white(p) THEN ColorWhite ELSE ColorBlack
        kingSq(c) ==
            LET ks == {s \in Squares : get_type(sq[s]) = KING /\ colorOf(sq[s]) = c}
            IN  IF ks = {} THEN 0 ELSE CHOOSE s \in ks : \A t \in ks : t <= s
        castling_rights ==
            (IF position.white_castle_kingside THEN 1 ELSE 0)
            + (IF position.white_castle_queenside THEN 2 ELSE 0)
            + (IF position.black_castle_kingside THEN 4 ELSE 0)
            + (IF position.black_castle_queenside THEN 8 ELSE 0)
        b1 == [BoardNew EXCEPT
                 !.squares = sq,
                 !.piece_bbs = [p \in 0..MAX_PIECE_INDEX |-> occ(p)],
                 !.color_bbs = [c \in 0..1 |->
                                  {s \in Squares : get_type(sq[s]) # NONE /\ colorOf(sq[s]) = c}],
                 !.king_squares = [c \in 0..1 |-> kingSq(c)],
                 !.all_piece_lists = [p \in 0..MAX_PIECE_INDEX |-> list(p)],
                 !.total_heavy_material =
                     Cardinality({s \in Squares : get_type(sq[s]) \notin {NONE, PAWN, KING}})]
        \* update_slider_bbs and ply_count are computed while white_to_move is
        \* still the TRUE of Board::new
        b2 == update_slider_bbs(b1)
        zobrist == Zobrist_key(ZobristNew, sq)
        st == StateNew(NONE, position.ep_file, castling_rights, position.halfmove_clock, zobrist)
    IN  [ok |-> \A p \in 0..MAX_PIECE_INDEX : Len(listed(p)) <= 16,
         b |-> [b2 EXCEPT
                  !.ply_count = (position.move_count - 1) * 2 + 0,
                  !.state = st,
                  !.repetition_history = <<zobrist.key>>,
                  !.game_state_history = <<st>>,
                  !.all_piece_bb = b2.color_bbs[ColorWhite] \cup b2.color_bbs[ColorBlack],
                  !.white_to_move = position.white_to_move,
                  !.start_pos_info = position]]

\* Board::load_from_fen.  result: "ok", "err" or "panic"; on "err" the board is
\* the one passed in
load_from_fen(b, fen, checks) ==
    LET position == PositionInfo_new(fen, checks)
        loaded == load_from_position(position.info)
    IN  IF position.result # "ok" THEN [result |-> position.result, b |-> b]
        ELSE IF ~loaded.ok THEN [result |-> "panic", b |-> b]
        ELSE [result |-> "ok", b |-> loaded.b]

\* Board::make_move.  ok = FALSE when the call panics (an index out of range,
\* a PieceList panic, or total_heavy_material - 1 below zero with overflow
\* checks).  self.state keeps the castling rights, en-passant file, halfmove
\* clock and captured type it had: only its zobrist key is assigned, and
\* new_state goes to game_state_history alone.
make_move(b, mv, in_search, checks) ==
    LET mc == move_color(b)
        oc == opponent_color(b)
        start == start_square(mv)
        target == target_square(mv)
        flag == move_flag(mv)
        is_ep == flag = EN_PASSANT_CAPTURE_FLAG
        moved_piece == b.squares[start]
        moved_piece_type == get_type(moved_piece)
        captured_piece == IF is_ep THEN PieceOf(PAWN, to_piece_color(oc)) ELSE b.squares[target]
        captured_piece_type == get_type(captured_piece)
        z == b.state.zobrist
        prev_castle_state == b.state.castling_rights
        prev_en_passant_file == b.state.en_passant_file
        b1 == Board_move_piece(b, moved_piece, start, target)
        \* Captures
        capturing == captured_piece_type # NONE
        capture_square == IF is_ep THEN target + (IF b.white_to_move THEN -8 ELSE 8) ELSE target
        removed == remove_piece(b1.all_piece_lists[captured_piece], capture_square)
        ok2 == ~capturing
               \/ (/\ capture_square \in Squares
                   /\ (b1.total_heavy_material > 0 \/ ~checks)
                   /\ removed.ok)
        b2 == IF ~capturing \/ ~ok2 THEN b1
              ELSE [b1 EXCEPT
                      !.squares = IF is_ep THEN [@ EXCEPT ![capture_square] = NONE] ELSE @,
                      !.total_heavy_material = @ - 1,
                      !.all_piece_lists[captured_piece] = removed.pl,
                      !.piece_bbs[captured_piece] = toggle_square(@, capture_square),
                      !.color_bbs[oc] = toggle_square(@, capture_square)]
        key2 == IF capturing THEN ZPiece(z, captured_piece, capture_square) ELSE {}
        \* King moves
        is_king == moved_piece_type = KING
        castling == is_king /\ flag = CASTLE_FLAG
        rook_piece == PieceOf(ROOK, to_piece_color(mc))
        king_side == target = G1 \/ target = G8
        castling_rook_from_idx == IF king_side THEN target + 1 ELSE target - 2
        castling_rook_to_idx == IF king_side THEN target - 1 ELSE target + 1
        ok3 == ~castling \/ {castling_rook_from_idx, castling_rook_to_idx} \subseteq Squares
        b3k == IF is_king THEN [b2 EXCEPT !.king_squares[mc] = target] ELSE b2
        b3 == IF ~castling \/ ~ok3 THEN b3k
              ELSE [b3k EXCEPT
                      !.piece_bbs[rook_piece] =
                          toggle_squares(@, {castling_rook_from_idx, castling_rook_to_idx}),
                      !.color_bbs[mc] =
                          toggle_squares(@, {castling_rook_from_idx, castling_rook_to_idx}),
                      !.all_piece_lists[rook_piece] =
                          PieceList_move_piece(@, castling_rook_from_idx, castling_rook_to_idx),
                      !.squares = [@ EXCEPT ![castling_rook_from_idx] = NONE,
                                            ![castling_rook_to_idx] = rook_piece]]
        key3 == IF castling /\ ok3
                THEN XorSet(ZPiece(z, rook_piece, castling_rook_from_idx),
                            ZPiece(z, rook_piece, castling_rook_to_idx))
                ELSE {}
        castle3 == IF is_king
                   THEN And4(prev_castle_state, IF b.white_to_move THEN 12 ELSE 3)
                   ELSE prev_castle_state
        \* Promotions
        promoting == is_promotion(mv)
        promotion_type == IF flag = PROMOTE_TO_QUEEN_FLAG THEN QUEEN
                          ELSE IF flag = PROMOTE_TO_ROOK_FLAG THEN ROOK
                          ELSE IF flag = PROMOTE_TO_KNIGHT_FLAG THEN KNIGHT
                          ELSE IF flag = PROMOTE_TO_BISHOP_FLAG THEN BISHOP ELSE 0
        promotion_piece == PieceOf(promotion_type, to_piece_color(mc))
        unlisted == remove_piece(b3.all_piece_lists[moved_piece], target)
        relisted == add_piece(IF moved_piece = promotion_piece THEN unlisted.pl
                              ELSE b3.all_piece_lists[promotion_piece], target)
        ok4 == ~promoting \/ (unlisted.ok /\ relisted.ok)
        b4 == IF ~promoting \/ ~ok4 THEN b3
              ELSE [b3 EXCEPT
                      !.total_heavy_material = @ + 1,
                      !.piece_bbs = [[@ EXCEPT ![moved_piece] = toggle_square(@, target)]
                                        EXCEPT ![promotion_piece] = toggle_square(@, target)],
                      !.all_piece_lists = [[@ EXCEPT ![moved_piece] = unlisted.pl]
                                              EXCEPT ![promotion_piece] = relisted.pl],
                      !.squares = [@ EXCEPT ![target] = promotion_piece]]
        \* EP
        two_up == flag = PAWN_TWO_UP_FLAG
        new_ep_file == IF two_up THEN file_of_square(start) + 1 ELSE 0
        key5 == IF two_up THEN ZEp(z, new_ep_file) ELSE {}
        \* Castling Rights
        castle6a == IF prev_castle_state = 0 THEN castle3
                    ELSE IF target = H1 \/ start = H1 THEN And4(castle3, CLEAR_WHITE_KINGSIDE_MASK)
                    ELSE IF target = A1 \/ start = A1 THEN And4(castle3, CLEAR_WHITE_QUEENSIDE_MASK)
                    ELSE castle3
        new_castling_rights ==
            IF prev_castle_state = 0 THEN castle6a
            ELSE IF target = H8 \/ start = H8 THEN And4(castle6a, CLEAR_BLACK_KINGSIDE_MASK)
            ELSE IF target = A8 \/ start = A8 THEN And4(castle6a, CLEAR_BLACK_QUEENSIDE_MASK)
            ELSE castle6a
        \* Update Zobrist
        key7 == XorSet(XorSet(ZSide(z), ZPiece(z, moved_piece, start)),
                       XorSet(ZPiece(z, b4.squares[target], target), ZEp(z, prev_en_passant_file)))
        key8 == IF new_castling_rights # prev_castle_state
                THEN XorSet(ZCastle(z, prev_castle_state), ZCastle(z, new_castling_rights))
                ELSE {}
        new_zobrist_key ==
            XorSet(XorSet(XorSet(z.key, key2), XorSet(key3, key5)), XorSet(key7, key8))
        resets == moved_piece_type = PAWN \/ captured_piece_type # NONE
        new_halfmove_clock == IF resets THEN 0 ELSE b.state.halfmove_clock + 1
        new_zobrist == [z EXCEPT !.key = new_zobrist_key]
        new_state == StateNew(captured_piece_type, new_ep_file, new_castling_rights,
                              new_halfmove_clock, new_zobrist)
        b9 == update_slider_bbs(
                  [b4 EXCEPT !.white_to_move = ~b.white_to_move,
                             !.ply_count = @ + 1,
                             !.all_piece_bb = b4.color_bbs[ColorWhite] \cup b4.color_bbs[ColorBlack]])
        history == IF resets /\ in_search THEN <<>> ELSE b.repetition_history
    IN  [ok |-> ok2 /\ ok3 /\ ok4,
         b |-> [b9 EXCEPT
                  !.state = [@ EXCEPT !.zobrist = new_zobrist],
                  !.game_state_history = Append(@, new_state),
                  !.has_cached_in_check_value = FALSE,
                  !.repetition_history =
                      IF in_search THEN history ELSE Append(history, new_zobrist_key),
                  !.all_moves = IF in_search THEN @ ELSE Append(@, mv)]]

\* VecDeque::pop_back / Vec::pop: nothing happens on an empty sequence
PopBack(seq) == IF seq = <<>> THEN seq ELSE SubSeq(seq, 1, Len(seq) - 1)

\* Board::unmake_move.  undoing_capture and captured_piece_type are read from
\* self.state as it is on entry; a restored capture is written to
\* squares[captured_piece.value], not to the capture square.
unmake_move(b, mv, in_search, checks) ==
    LET b0 == [b EXCEPT !.white_to_move = ~b.white_to_move]
        undoing_white == b0.white_to_move
        moved_from == start_square(mv)
        moved_to == target_square(mv)
        flag == move_flag(mv)
        undoing_ep == flag = EN_PASSANT_CAPTURE_FLAG
        undoing_promotion == is_promotion(mv)
        undoing_capture == b.state.captured_piece_type # NONE
        mc == move_color(b0)
        oc == opponent_color(b0)
        pawn_piece == PieceOf(PAWN, to_piece_color(mc))
        moved_piece == IF undoing_promotion THEN pawn_piece ELSE b.squares[moved_to]
        moved_piece_type == get_type(moved_piece)
        captured_piece_type == b.state.captured_piece_type
        \* promotion
        promoted_piece == b.squares[moved_to]
        unlisted == remove_piece(b0.all_piece_lists[promoted_piece], moved_to)
        relisted == add_piece(IF promoted_piece = moved_piece THEN unlisted.pl
                              ELSE b0.all_piece_lists[moved_piece], moved_to)
        ok1 == ~undoing_promotion
               \/ ((b0.total_heavy_material > 0 \/ ~checks) /\ unlisted.ok /\ relisted.ok)
        b1 == IF ~undoing_promotion \/ ~ok1 THEN b0
              ELSE [b0 EXCEPT
                      !.total_heavy_material = @ - 1,
                      !.all_piece_lists = [[@ EXCEPT ![promoted_piece] = unlisted.pl]
                                              EXCEPT ![moved_piece] = relisted.pl],
                      !.piece_bbs = [[@ EXCEPT ![promoted_piece] = toggle_square(@, moved_to)]
                                        EXCEPT ![pawn_piece] = toggle_square(@, moved_to)]]
        b2 == Board_move_piece(b1, moved_piece, moved_to, moved_from)
        \* capture
        captured_piece == PieceOf(captured_piece_type, to_piece_color(oc))
        capture_square == IF undoing_ep THEN moved_to + (IF undoing_white THEN -8 ELSE 8)
                          ELSE moved_to
        readded == add_piece(b2.all_piece_lists[captured_piece], capture_square)
        ok3 == ~undoing_capture \/ (capture_square \in Squares /\ readded.ok)
        b3 == IF ~undoing_capture \/ ~ok3 THEN b2
              ELSE [b2 EXCEPT
                      !.total_heavy_material = IF captured_piece_type # PAWN THEN @ + 1 ELSE @,
                      !.piece_bbs[captured_piece] = toggle_square(@, capture_square),
                      !.color_bbs[oc] = toggle_square(@, capture_square),
                      !.all_piece_lists[captured_piece] = readded.pl,
                      !.squares = [@ EXCEPT ![captured_piece] = captured_piece]]
        \* king
        is_king == moved_piece_type = KING
        castling == is_king /\ flag = CASTLE_FLAG
        rook_piece == PieceOf(ROOK, to_piece_color(mc))
        kingside == moved_to = G1 \/ moved_to = G8
        rook_square_before_castle == IF kingside THEN moved_to + 1 ELSE moved_to - 2
        rook_square_after_castle == IF kingside THEN moved_to - 1 ELSE moved_to + 1
        ok4 == ~castling \/ {rook_square_before_castle, rook_square_after_castle} \subseteq Squares
        b4k == IF is_king THEN [b3 EXCEPT !.king_squares[mc] = moved_from] ELSE b3
        b4 == IF ~castling \/ ~ok4 THEN b4k
              ELSE [b4k EXCEPT
                      !.piece_bbs[rook_piece] =
                          toggle_squares(@, {rook_square_after_castle, rook_square_before_castle}),
                      !.color_bbs[mc] =
                          toggle_squares(@, {rook_square_after_castle, rook_square_before_castle}),
                      !.squares = [@ EXCEPT ![rook_square_after_castle] = NONE,
                                            ![rook_square_before_castle] = rook_piece],
                      !.all_piece_lists[rook_piece] =
                          PieceList_move_piece(@, rook_square_after_castle,
                                               rook_square_before_castle)]
        b5 == update_slider_bbs(
                  [b4 EXCEPT !.all_piece_bb = b4.color_bbs[ColorWhite] \cup b4.color_bbs[ColorBlack]])
        history == PopBack(b.game_state_history)
    IN  [ok |-> ok1 /\ ok3 /\ ok4,
         b |-> [b5 EXCEPT
                  !.repetition_history = IF in_search THEN @ ELSE PopBack(@),
                  !.all_moves = IF in_search THEN @ ELSE PopBack(@),
                  !.game_state_history = history,
                  !.state = IF history = <<>> THEN StateDefault ELSE history[Len(history)],
                  !.ply_count = @ - 1,
                  !.has_cached_in_check_value = FALSE]]

\* Board::make_null_move: the side to move flips, the key takes the side word
\* and the word of the en-passant file, and a new state with no en-passant
\* file and halfmove_clock + 1 becomes the current state and is pushed.  ok =
\* FALSE when the en-passant file indexes outside the nine words of the table.
make_null_move(b) ==
    LET z == b.state.zobrist
        new_zobrist_key == XorSet(XorSet(z.key, ZSide(z)), ZEp(z, b.state.en_passant_file))
        new_zobrist == [z EXCEPT !.key = new_zobrist_key]
        new_state == StateNew(NONE, 0, b.state.castling_rights, b.state.halfmove_clock + 1,
                              new_zobrist)
        b1 == [b EXCEPT !.white_to_move = ~b.white_to_move,
                        !.ply_count = @ + 1,
                        !.state = new_state,
                        !.game_state_history = Append(@, new_state)]
    IN  [ok |-> b.state.en_passant_file \in 0..8,
         b |-> [update_slider_bbs(b1) EXCEPT !.has_cached_in_check_value = TRUE,
                                             !.cached_in_check_value = FALSE]]

\* Board::unmake_null_move
unmake_null_move(b) ==
    LET history == PopBack(b.game_state_history)
        b1 == [b EXCEPT !.white_to_move = ~b.white_to_move,
                        !.ply_count = @ - 1,
                        !.game_state_history = history,
                        !.state = IF history = <<>> THEN StateDefault
                                  ELSE history[Len(history)]]
    IN  [update_slider_bbs(b1) EXCEPT !.has_cached_in_check_value = TRUE,
                                      !.cached_in_check_value = FALSE]

\* ---------------------------------------------------------- move generator
RECURSIVE Concat(_)
Concat(seqs) == IF seqs = <<>> THEN <<>> ELSE Head(seqs) \o Concat(Tail(seqs))

\* the moves of the pieces on starts, lowest start square first and, for each,
\* lowest target first (the two nested pop_lsb loops)
PieceMoves(starts, Targets(_)) ==
    LET ss == SortedSeq(starts)
    IN  Concat([i \in 1..Len(ss) |->
                  LET ts == SortedSeq(Targets(ss[i]))
                  IN  [j \in 1..Len(ts) |-> MoveFrom(ss[i], ts[j], NO_FLAG)]])

\* pawn moves are enumerated by target square; the start is target - offset
PawnMoves(targets, offset, flag) ==
    LET ts == SortedSeq(targets)
    IN  [j \in 1..Len(ts) |-> MoveFrom(ts[j] - offset, ts[j], flag)]

\* MoveGenerator::update_slide_attack: the attacks of every slider of piece_bb,
\* with the friendly king removed from the blockers
update_slide_attack(all_piece_bb, friendly_king_square, piece_bb, ortho) ==
    UNION {get_slider_attacks(s, all_piece_bb \ {friendly_king_square}, ortho) : s \in piece_bb}

\* MoveGenerator::new with calculate_attack_map.  The generator indexes
\* king_squares and color_bbs with to_piece_color(): 0 for White, 8 for Black,
\* which is out of range.  update_slide_attack pops the bits of the board's own
\* enemy slider bitboards, leaving both empty.  The pin and slider-check loop
\* runs over start_dir_idx..end_dir_idx taken from board.queens/rooks/bishops,
\* and its first step builds the precomputed move data, which panics.
MoveGenerator_new(b, captures_only) ==
    LET generate_quiet_moves == ~captures_only
        friendly_index == to_piece_color(move_color(b))
        enemy_index == 1 - friendly_index
        ok1 == friendly_index \in 0..1 /\ enemy_index \in 0..1
        friendly_king_square == b.king_squares[friendly_index]
        enemy_pieces == b.color_bbs[enemy_index]
        friendly_pieces == b.color_bbs[friendly_index]
        all_pieces == b.all_piece_bb
        empty_squares == Squares \ all_pieces
        opponent_sliding_attack_map ==
            update_slide_attack(b.all_piece_bb, friendly_king_square, b.enemy_ortho_slider_bb, TRUE)
            \cup update_slide_attack(b.all_piece_bb, friendly_king_square, b.enemy_diag_slider_bb, FALSE)
        no_queens == b.queens[enemy_index].num_pieces = 0
        start_dir_idx == IF no_queens /\ b.rooks[enemy_index].num_pieces = 0 THEN 4 ELSE 0
        end_dir_idx == IF no_queens /\ b.bishops[enemy_index].num_pieces = 0 THEN 4 ELSE 8
        ok2 == start_dir_idx >= end_dir_idx
        pin_rays == {}
        knights_bb == b.piece_bbs[PieceOf(KNIGHT, to_piece_color(opponent_color(b)))]
        friendly_king_bb == b.piece_bbs[PieceOf(KING, to_piece_color(move_color(b)))]
        opponent_knight_attacks == UNION {knight_attacks(k) : k \in knights_bb}
        checking_knights == {k \in knights_bb : knight_attacks(k) \cap friendly_king_bb # {}}
        opponent_pawns_bb == b.piece_bbs[PieceOf(PAWN, to_piece_color(opponent_color(b)))]
        opponent_pawn_attack_map == pawn_attacks(opponent_pawns_bb, ~b.white_to_move)
        pawn_check == friendly_king_square \in opponent_pawn_attack_map
        possible_pawn_attack_origins ==
            IF b.white_to_move THEN white_pawn_attacks(friendly_king_square)
            ELSE black_pawn_attacks(friendly_king_square)
        pawn_check_map == opponent_pawns_bb \cap possible_pawn_attack_origins
        checks == Cardinality(checking_knights) + (IF pawn_check THEN 1 ELSE 0)
        in_check == checks >= 1
        enemy_king_square == b.king_squares[enemy_index]
        opponent_attack_map_no_pawns ==
            opponent_sliding_attack_map \cup opponent_knight_attacks \cup king_moves(enemy_king_square)
    IN  IF ~ok1 \/ ~ok2 THEN [ok |-> FALSE, b |-> b]
        ELSE [ok |-> TRUE,
              b |-> [b EXCEPT !.enemy_ortho_slider_bb = {}, !.enemy_diag_slider_bb = {}],
              generate_quiet_moves |-> generate_quiet_moves,
              white_to_move |-> b.white_to_move,
              friendly_king_square |-> friendly_king_square,
              in_check |-> in_check,
              in_double_check |-> checks >= 2,
              check_ray_bitboard |->
                  IF in_check
                  THEN checking_knights \cup (IF pawn_check THEN pawn_check_map ELSE {})
                  ELSE Squares,
              pin_rays |-> pin_rays,
              not_pin_rays |-> Squares \ pin_rays,
              opponent_attack_map |-> opponent_attack_map_no_pawns \cup opponent_pawn_attack_map,
              opponent_pawn_attack_map |-> opponent_pawn_attack_map,
              enemy_pieces |-> enemy_pieces,
              friendly_pieces |-> friendly_pieces,
              all_pieces |-> all_pieces,
              empty_squares |-> empty_squares,
              empty_or_enemy_squares |-> empty_squares \cup enemy_pieces,
              move_type_mask |-> IF generate_quiet_moves THEN Squares ELSE enemy_pieces]

\* MoveGenerator::generate_king_moves.  (The MAX_MOVES tests of the generator
\* never fire on the boards modelled here: fewer than 218 moves.)
generate_king_moves(mg, b) ==
    LET legal_mask == Squares \ (mg.opponent_attack_map \cup mg.friendly_pieces)
        targets == (king_moves(mg.friendly_king_square) \cap legal_mask) \cap mg.move_type_mask
        steps == PieceMoves({mg.friendly_king_square}, LAMBDA s : targets)
        castle_blockers == mg.opponent_attack_map \cup b.all_piece_bb
        kingside ==
            IF /\ can_castle_kingside(b.state, b.white_to_move)
               /\ (IF b.white_to_move THEN WHITE_KINGSIDE_MASK ELSE BLACK_KINGSIDE_MASK)
                      \cap castle_blockers = {}
            THEN <<MoveFrom(mg.friendly_king_square, IF b.white_to_move THEN G1 ELSE G8, CASTLE_FLAG)>>
            ELSE <<>>
        queenside ==
            IF /\ can_castle_queenside(b.state, b.white_to_move)
               /\ (IF b.white_to_move THEN WHITE_QUEENSIDE_MASK2 ELSE BLACK_QUEENSIDE_MASK2)
                      \cap castle_blockers = {}
               /\ (IF b.white_to_move THEN WHITE_QUEENSIDE_MASK ELSE BLACK_QUEENSIDE_MASK)
                      \cap b.all_piece_bb = {}
            THEN <<MoveFrom(mg.friendly_king_square, IF b.white_to_move THEN C1 ELSE C8, CASTLE_FLAG)>>
            ELSE <<>>
    IN  IF ~mg.in_check /\ mg.generate_quiet_moves THEN steps \o kingside \o queenside ELSE steps

is_pinned(mg, square) == square \in mg.pin_rays

\* MoveGenerator::generate_sliding_moves; is_pinned is false for every square
\* (pin_rays is empty), so the align_mask of the precomputed data is never read
generate_sliding_moves(mg, b) ==
    LET move_mask == (mg.empty_or_enemy_squares \cap mg.check_ray_bitboard) \cap mg.move_type_mask
        orthogonal_sliders == IF mg.in_check THEN b.friendly_ortho_slider_bb \ mg.pin_rays
                              ELSE b.friendly_ortho_slider_bb
        diagonal_sliders == IF mg.in_check THEN b.friendly_diag_slider_bb \ mg.pin_rays
                            ELSE b.friendly_diag_slider_bb
    IN  PieceMoves(orthogonal_sliders, LAMBDA s : get_rook_attacks(s, mg.all_pieces) \cap move_mask)
        \o PieceMoves(diagonal_sliders, LAMBDA s : get_bishop_attacks(s, mg.all_pieces) \cap move_mask)

\* MoveGenerator::generate_knight_moves
generate_knight_moves(mg, b) ==
    LET knights == b.piece_bbs[PieceOf(KNIGHT, to_piece_color(move_color(b)))] \cap mg.not_pin_rays
        move_mask == (mg.empty_or_enemy_squares \cap mg.check_ray_bitboard) \cap mg.move_type_mask
    IN  PieceMoves(knights, LAMBDA s : knight_attacks(s) \cap move_mask)

\* MoveGenerator::in_check_after_ep, reading the board's enemy_ortho_slider_bb
in_check_after_ep(mg, b, start, target, ep_capture_square) ==
    LET enemy_ortho == b.enemy_ortho_slider_bb
        masked_blockers == XorSet(mg.all_pieces, {ep_capture_square, start, target})
    IN  IF enemy_ortho # {}
        THEN get_rook_attacks(mg.friendly_king_square, masked_blockers) \cap enemy_ortho # {}
        ELSE FALSE

\* MoveGenerator::generate_pawn_moves.  generate_promotions assigns
\* moves[current_move_index] on a vector of exactly that length: a panic
generate_pawn_moves(mg, b) ==
    LET push_dir == IF b.white_to_move THEN 1 ELSE -1
        push_offset == push_dir * 8
        pawns == b.piece_bbs[PieceOf(PAWN, to_piece_color(move_color(b)))]
        promotion_rank_mask == IF b.white_to_move THEN RankMask(7) ELSE RankMask(0)
        single_push == shift(pawns, push_offset) \cap mg.empty_squares
        push_promotions == (single_push \cap promotion_rank_mask) \cap mg.check_ray_bitboard
        capture_edge_file_mask == IF b.white_to_move THEN NOT_A_FILE ELSE NOT_H_FILE
        capture_edge_file_mask2 == IF b.white_to_move THEN NOT_H_FILE ELSE NOT_A_FILE
        capture_a0 == shift(pawns \cap capture_edge_file_mask, push_dir * 7) \cap mg.enemy_pieces
        capture_b0 == shift(pawns \cap capture_edge_file_mask2, push_dir * 9) \cap mg.enemy_pieces
        single_push_no_promotion == (single_push \ promotion_rank_mask) \cap mg.check_ray_bitboard
        capture_promotions_a == (capture_a0 \cap promotion_rank_mask) \cap mg.check_ray_bitboard
        capture_promotions_b == (capture_b0 \cap promotion_rank_mask) \cap mg.check_ray_bitboard
        capture_a == capture_a0 \cap (mg.check_ray_bitboard \ promotion_rank_mask)
        capture_b == capture_b0 \cap (mg.check_ray_bitboard \ promotion_rank_mask)
        double_push_target_rank_mask == IF b.white_to_move THEN RankMask(3) ELSE RankMask(4)
        double_push == ((shift(single_push, push_offset) \cap mg.empty_squares)
                           \cap double_push_target_rank_mask) \cap mg.check_ray_bitboard
        pushes == IF mg.generate_quiet_moves
                  THEN PawnMoves(single_push_no_promotion, push_offset, NO_FLAG)
                       \o PawnMoves(double_push, push_offset * 2, PAWN_TWO_UP_FLAG)
                  ELSE <<>>
        captures == PawnMoves(capture_a, push_dir * 7, NO_FLAG)
                    \o PawnMoves(capture_b, push_dir * 9, NO_FLAG)
        promotes == (push_promotions \cup capture_promotions_a) \cup capture_promotions_b # {}
        ep_file_idx == b.state.en_passant_file - 1
        ep_rank_idx == IF b.white_to_move THEN 5 ELSE 2
        ep_target == ep_rank_idx * 8 + ep_file_idx
        captured_pawn_square == ep_target - push_offset
        pawns_that_can_capture_ep == pawns \cap pawn_attacks({ep_target}, ~b.white_to_move)
        ep_starts ==
            IF b.state.en_passant_file > 0 /\ captured_pawn_square \in mg.check_ray_bitboard
            THEN SortedSeq({s \in pawns_that_can_capture_ep :
                               ~in_check_after_ep(mg, b, s, ep_target, captured_pawn_square)})
            ELSE <<>>
        ep == [i \in 1..Len(ep_starts) |-> MoveFrom(ep_starts[i], ep_target, EN_PASSANT_CAPTURE_FLAG)]
    IN  [ok |-> ~promotes, moves |-> pushes \o captures \o ep]

\* Board::generate_moves (MoveGenerator::generate).  b is the board afterwards
generate_moves(b, captures_only) ==
    LET mg == MoveGenerator_new(b, captures_only)
        pawn == generate_pawn_moves(mg, mg.b)
    IN  IF ~mg.ok THEN [ok |-> FALSE, moves |-> <<>>, b |-> b, in_check |-> FALSE]
        ELSE IF mg.in_double_check
        THEN [ok |-> TRUE, moves |-> generate_king_moves(mg, mg.b), b |-> mg.b,
              in_check |-> mg.in_check]
        ELSE [ok |-> pawn.ok,
              moves |-> generate_king_moves(mg, mg.b) \o generate_sliding_moves(mg, mg.b)
                        \o generate_knight_moves(mg, mg.b) \o pawn.moves,
              b |-> mg.b, in_check |-> mg.in_check]

\* ------------------------------------------------------------- UCI moves
\* Move::from_uci on a move name given as its characters.  The slices [0..3]
\* and [2..5] panic on a name shorter than five characters; squares[start]
\* panics when the parsed start square is negative.
from_uci(b, move_name) ==
    LET start_coord == Coord_from_string(SubSeq(move_name, 1, 3))
        target_coord == Coord_from_string(SubSeq(move_name, 3, 5))
        start == CoordIndex(start_coord.file_idx, start_coord.rank_idx)
        target == CoordIndex(target_coord.file_idx, target_coord.rank_idx)
        moved_piece_type == get_type(b.squares[start])
        last == move_name[Len(move_name)]
        rank_diff == target_coord.rank_idx - start_coord.rank_idx
        file_diff == start_coord.file_idx - target_coord.file_idx
        reads_target == /\ moved_piece_type = PAWN
                        /\ Len(move_name) <= 4
                        /\ rank_diff \notin {2, -2}
                        /\ start_coord.file_idx # target_coord.file_idx
        flag == IF moved_piece_type = PAWN
                THEN IF Len(move_name) > 4
                     THEN CASE last = "q" -> PROMOTE_TO_QUEEN_FLAG
                            [] last = "r" -> PROMOTE_TO_ROOK_FLAG
                            [] last = "n" -> PROMOTE_TO_KNIGHT_FLAG
                            [] last = "b" -> PROMOTE_TO_BISHOP_FLAG
                            [] OTHER -> NO_FLAG
                     ELSE IF rank_diff \in {2, -2} THEN PAWN_TWO_UP_FLAG
                     ELSE IF start_coord.file_idx # target_coord.file_idx
                             /\ b.squares[target] = NONE
                     THEN EN_PASSANT_CAPTURE_FLAG
                     ELSE NO_FLAG
                ELSE IF moved_piece_type = KING /\ (file_diff > 1 \/ file_diff < -1)
                THEN CASTLE_FLAG
                ELSE NO_FLAG
    IN  IF Len(move_name) < 5 \/ start \notin Squares THEN [ok |-> FALSE, mv |-> NullMove]
        ELSE IF reads_target /\ target \notin Squares THEN [ok |-> FALSE, mv |-> NullMove]
        ELSE [ok |-> TRUE, mv |-> MoveFrom(start, target, flag)]

\* Move::to_uci
to_uci(mv) ==
    Coord_to_string(start_square(mv)) \o Coord_to_string(target_square(mv))
    \o (CASE move_flag(mv) = PROMOTE_TO_ROOK_FLAG -> <<"r">>
          [] move_flag(mv) = PROMOTE_TO_KNIGHT_FLAG -> <<"n">>
          [] move_flag(mv) = PROMOTE_TO_BISHOP_FLAG -> <<"b">>
          [] move_flag(mv) = PROMOTE_TO_QUEEN_FLAG -> <<"q">>
          [] OTHER -> <<>>)

\* Brain::make_move: the move parsed by from_uci is made as it is; the move
\* list of the position is not consulted, and the result is always Ok
Brain_make_move(b, move_string, checks) ==
    LET parsed == from_uci(b, move_string)
    IN  IF ~parsed.ok THEN [ok |-> FALSE, b |-> b]
        ELSE make_move(b, parsed.mv, FALSE, checks)

\* Board::current_fen(false) reaches can_capture when a pawn of the side to move
\* stands beside the en passant square; can_capture ends in
\* calculate_in_check_state, which is todo!()
current_fen_panics(b) ==
    LET ep_file_idx == b.state.en_passant_file - 1
        ep_rank_idx == IF b.white_to_move THEN 5 ELSE 2
        from_rank == ep_rank_idx + (IF b.white_to_move THEN -1 ELSE 1)
        friendly_pawn == PieceOf(PAWN, IF b.white_to_move THEN WHITE ELSE BLACK)
        can_capture(file) ==
            /\ file \in 0..7
            /\ from_rank \in 0..7
            /\ b.squares[from_rank * 8 + file] = friendly_pawn
    IN  can_capture(ep_file_idx - 1) \/ can_capture(ep_file_idx + 1)

RECURSIVE NatText(_)
\* to_string of an unsigned decimal
NatText(n) ==
    IF n < 10 THEN <<Digits[n + 1]>> ELSE NatText(n \div 10) \o <<Digits[(n % 10) + 1]>>

\* i32::to_string
IntText(n) == IF n < 0 THEN <<"-">> \o NatText(-n) ELSE NatText(n)

\* format!("{}", bool)
BoolText(v) == IF v THEN <<"t", "r", "u", "e">> ELSE <<"f", "a", "l", "s", "e">>

\* i32 division, which rounds towards zero
TruncDiv(a, d) == IF a >= 0 THEN a \div d ELSE -((-a) \div d)

\* Board::current_fen.  The loop "for rank in 7..=0" runs over an empty range,
\* so nothing is written for the placement; the side to move is written with
\* format!("{}", self.white_to_move) and no space before it.  The en-passant
\* square is shown only with always_show_ep: ep_capture_possible either
\* panics (current_fen_panics) or finds no pawn and answers false.
current_fen(b, always_show_ep) ==
    LET placement == <<>>
        rights == b.state.castling_rights
        castling ==
            (IF And4(rights, 1) # 0 THEN <<"K">> ELSE <<>>)
            \o (IF And4(rights, 2) # 0 THEN <<"Q">> ELSE <<>>)
            \o (IF And4(rights, 4) # 0 THEN <<"k">> ELSE <<>>)
            \o (IF And4(rights, 8) # 0 THEN <<"q">> ELSE <<>>)
            \o (IF rights = 0 THEN <<"-">> ELSE <<>>)
        ep_file_idx == b.state.en_passant_file - 1
        ep_rank_idx == IF b.white_to_move THEN 5 ELSE 2
        is_ep == ep_file_idx # -1
        include_ep == always_show_ep
        shown == is_ep /\ include_ep
        ok == (always_show_ep \/ ~current_fen_panics(b))
              /\ (shown => ep_file_idx \in 0..7)
        ep == IF shown /\ ok THEN <<FILE_NAMES[ep_file_idx + 1]>> \o IntText(ep_rank_idx + 1)
              ELSE <<"-">>
    IN  [ok |-> ok,
         fen |-> placement \o BoolText(b.white_to_move) \o <<" ">> \o castling \o <<" ">> \o ep
                 \o <<" ">> \o IntText(b.state.halfmove_clock)
                 \o <<" ">> \o IntText(TruncDiv(b.ply_count, 2) + 1)]

RECURSIVE perft(_, _, _), perft_moves(_, _, _, _)
\* the leaves of the move tree below b: at depth 0 the position itself, else
\* the leaves below every move of generate_moves(false), each made with
\* make_move and taken back with unmake_move.  b is the board afterwards.
perft(b, depth, checks) ==
    IF depth = 0 THEN [ok |-> TRUE, nodes |-> 1, b |-> b]
    ELSE CHOOSE r \in {IF ~g.ok THEN [ok |-> FALSE, nodes |-> 0, b |-> g.b]
                       ELSE perft_moves(g.b, g.moves, depth, checks) :
                       g \in {generate_moves(b, FALSE)}} : TRUE

perft_unmade(u, sub, list, depth, checks) ==
    IF ~u.ok THEN [ok |-> FALSE, nodes |-> 0, b |-> u.b]
    ELSE CHOOSE r \in {[ok |-> rest.ok, nodes |-> sub.nodes + rest.nodes, b |-> rest.b] :
                       rest \in {perft_moves(u.b, Tail(list), depth, checks)}} : TRUE

perft_below(sub, list, depth, checks) ==
    IF ~sub.ok THEN [ok |-> FALSE, nodes |-> 0, b |-> sub.b]
    ELSE perft_unmade(unmake_move(sub.b, Head(list), TRUE, checks), sub, list, depth, checks)

perft_made(m, list, depth, checks) ==
    IF ~m.ok THEN [ok |-> FALSE, nodes |-> 0, b |-> m.b]
    ELSE perft_below(perft(m.b, depth - 1, checks), list, depth, checks)

perft_moves(b, list, depth, checks) ==
    IF list = <<>> THEN [ok |-> TRUE, nodes |-> 0, b |-> b]
    ELSE perft_made(make_move(b, Head(list), TRUE, checks), list, depth, checks)

\* ------------------------------------------------------------------ inputs
\* Texts are sequences of one-character strings.
\* fen::STARTING_FEN
STARTING_FEN ==
    <<"r", "n", "b", "q", "k", "b", "n", "r", "/", "p", "p", "p", "p", "p",
      "p", "p", "p", "/", "8", "/", "8", "/", "8", "/", "8", "/", "P", "P",
      "P", "P", "P", "P", "P", "P", "/", "R", "N", "B", "Q", "K", "B", "N",
      "R", " ", "w", " ", "K", "Q", "k", "q", " ", "-", " ", "0", " ", "1">>

\* "4k3/8/8/3p4/4P3/8/8/4K1N1 w - - 0 1": the pawn e4 can take on d5
FenCapture ==
    <<"4", "k", "3", "/", "8", "/", "8", "/", "3", "p", "4", "/", "4", "P",
      "3", "/", "8", "/", "8", "/", "4", "K", "1", "N", "1", " ", "w", " ",
      "-", " ", "-", " ", "0", " ", "1">>

\* "4k3/8/8/1P1p4/8/8/8/4K1N1 w - d6 0 1": Black has just played d7d5
FenEnPassant ==
    <<"4", "k", "3", "/", "8", "/", "8", "/", "1", "P", "1", "p", "4", "/",
      "8", "/", "8", "/", "8", "/", "4", "K", "1", "N", "1", " ", "w", " ",
      "-", " ", "d", "6", " ", "0", " ", "1">>

\* "4r3/8/8/8/8/8/4R3/4K3 w - - 0 1": the rook e2 shields the king from e8
FenPinned ==
    <<"4", "r", "3", "/", "8", "/", "8", "/", "8", "/", "8", "/", "8", "/",
      "4", "R", "3", "/", "4", "K", "3", " ", "w", " ", "-", " ", "-", " ",
      "0", " ", "1">>

\* "8/8/8/K1Pp3r/8/8/8/7k w - e6 0 1": king, two pawns and an enemy rook on rank 5
FenRankPin ==
    <<"8", "/", "8", "/", "8", "/", "K", "1", "P", "p", "3", "r", "/", "8",
      "/", "8", "/", "8", "/", "7", "k", " ", "w", " ", "-", " ", "e", "6",
      " ", "0", " ", "1">>

\* "4k3/8/8/8/8/8/8/4K2R b K - 0 1": Black to move
FenBlack ==
    <<"4", "k", "3", "/", "8", "/", "8", "/", "8", "/", "8", "/", "8", "/",
      "8", "/", "4", "K", "2", "R", " ", "b", " ", "K", " ", "-", " ", "0",
      " ", "1">>

\* "4k3/8/8/8/8/8/8/4K3 w": two sections only
FenTwoSections ==
    <<"4", "k", "3", "/", "8", "/", "8", "/", "8", "/", "8", "/", "8", "/",
      "8", "/", "4", "K", "3", " ", "w">>

\* "4k3/8/8/4K3 w - - 0 1": four ranks only
FenFourRanks ==
    <<"4", "k", "3", "/", "8", "/", "8", "/", "4", "K", "3", " ", "w", " ",
      "-", " ", "-", " ", "0", " ", "1">>

\* "8/8/8/8/8/8/8/8/8 w - - 0 1": nine ranks
FenNineRanks ==
    <<"8", "/", "8", "/", "8", "/", "8", "/", "8", "/", "8", "/", "8", "/",
      "8", "/", "8", " ", "w", " ", "-", " ", "-", " ", "0", " ", "1">>

\* "4k3/8/8/8/8/8/8/4Kxx1 w - - 0 1": letters that name no piece
FenLetters ==
    <<"4", "k", "3", "/", "8", "/", "8", "/", "8", "/", "8", "/", "8", "/",
      "8", "/", "4", "K", "x", "x", "1", " ", "w", " ", "-", " ", "-", " ",
      "0", " ", "1">>

\* White is stalemated
FenStalemate ==
    <<"8", "/", "8", "/", "8", "/", "8", "/", "8", "/", "1", "q", "6", "/", "8", "/", "K", "6", "k", " ", "w", " ", "-", " ", "-", " ", "0", " ", "1">>

\* White is checkmated
FenMated ==
    <<"k", "7", "/", "8", "/", "8", "/", "8", "/", "8", "/", "8", "/", "5", "P", "P", "P", "/", "q", "5", "K", "1", " ", "w", " ", "-", " ", "-", " ", "0", " ", "1">>

\* "8/8/8/8/7p/8/2k5/K7 w - - 0 1"
FenOneMove ==
    <<
      "8", "/", "8", "/", "8", "/", "8", "/", "7", "p", "/", "8", "/", "2",
      "k", "5", "/", "K", "7", " ", "w", " ", "-", " ", "-", " ", "0", " ",
      "1"
    >>

\* "4k3/pp6/8/8/8/8/PP6/4K3 w - - 0 1"
FenPawns ==
    <<
      "4", "k", "3", "/", "p", "p", "6", "/", "8", "/", "8", "/", "8", "/",
      "8", "/", "P", "P", "6", "/", "4", "K", "3", " ", "w", " ", "-", " ",
      "-", " ", "0", " ", "1"
    >>

\* "r3k2r/8/8/8/8/8/8/R3K2R w KQkq - 7 12": every castling right, clocks running
FenCastle ==
    <<"r", "3", "k", "2", "r", "/", "8", "/", "8", "/", "8", "/", "8", "/",
      "8", "/", "8", "/", "R", "3", "K", "2", "R", " ", "w", " ", "K", "Q",
      "k", "q", " ", "-", " ", "7", " ", "1", "2">>

\* "r4rk1/8/8/8/8/8/8/R3K2R w KQ - 0 1": a black rook attacks f1
FenCastleThrough ==
    <<"r", "4", "r", "k", "1", "/", "8", "/", "8", "/", "8", "/", "8", "/", "8", "/", "8", "/", "R", "3", "K", "2", "R", " ", "w", " ", "K", "Q", " ", "-", " ", "0", " ", "1">>

\* "4r1k1/8/8/8/8/8/8/R3K2R w KQ - 0 1": a black rook gives check on the e-file
FenCastleCheck ==
    <<"4", "r", "1", "k", "1", "/", "8", "/", "8", "/", "8", "/", "8", "/", "8", "/", "8", "/", "R", "3", "K", "2", "R", " ", "w", " ", "K", "Q", " ", "-", " ", "0", " ", "1">>

\* "3r2k1/8/8/8/8/8/8/R3K2R w KQ - 0 1": a black rook attacks d1
FenCastleLong ==
    <<"3", "r", "2", "k", "1", "/", "8", "/", "8", "/", "8", "/", "8", "/", "8", "/", "8", "/", "R", "3", "K", "2", "R", " ", "w", " ", "K", "Q", " ", "-", " ", "0", " ", "1">>

\* "4k3/8/8/8/8/8/8/RN2K1NR w KQ - 0 1": knights stand on b1 and g1
FenCastleBlocked ==
    <<"4", "k", "3", "/", "8", "/", "8", "/", "8", "/", "8", "/", "8", "/", "8", "/", "R", "N", "2", "K", "1", "N", "R", " ", "w", " ", "K", "Q", " ", "-", " ", "0", " ", "1">>

\* "r3k2r/8/8/8/8/8/8/R3K2R w Qk - 0 1": White may castle long only
FenCastleNoRight ==
    <<"r", "3", "k", "2", "r", "/", "8", "/", "8", "/", "8", "/", "8", "/", "8", "/", "8", "/", "R", "3", "K", "2", "R", " ", "w", " ", "Q", "k", " ", "-", " ", "0", " ", "1">>

\* "n3k3/1P6/8/8/8/8/8/4K3 w - - 0 1": the pawn b7 promotes on b8 or on a8
FenPromote ==
    <<"n", "3", "k", "3", "/", "1", "P", "6", "/", "8", "/", "8", "/", "8",
      "/", "8", "/", "8", "/", "4", "K", "3", " ", "w", " ", "-", " ", "-",
      " ", "0", " ", "1">>

\* the positions the searches run on, besides the start position
SearchFenNames == {"capture", "onemove", "pawns", "stalemate", "mated"}

FenNames ==
    {"capture", "enpassant", "pinned", "rankpin", "black", "castle",
     "twosections", "fourranks", "nineranks", "letters"}

\* the positions castling is generated on
CastleFenNames ==
    {"castle", "castlethrough", "castlecheck", "castlelong", "castleblocked", "castlenoright"}

\* the positions the queries (current_fen, from_uci, leaf counts) are asked on
QueryFenNames == FenNames \cup {"start", "promote"}

FenText(name) ==
    CASE name = "start" -> STARTING_FEN
      [] name = "capture" -> FenCapture
      [] name = "enpassant" -> FenEnPassant
      [] name = "pinned" -> FenPinned
      [] name = "rankpin" -> FenRankPin
      [] name = "black" -> FenBlack
      [] name = "twosections" -> FenTwoSections
      [] name = "fourranks" -> FenFourRanks
      [] name = "nineranks" -> FenNineRanks
      [] name = "letters" -> FenLetters
      [] name = "onemove" -> FenOneMove
      [] name = "pawns" -> FenPawns
      [] name = "castle" -> FenCastle
      [] name = "promote" -> FenPromote
      [] name = "stalemate" -> FenStalemate
      [] name = "mated" -> FenMated
      [] name = "castlethrough" -> FenCastleThrough
      [] name = "castlecheck" -> FenCastleCheck
      [] name = "castlelong" -> FenCastleLong
      [] name = "castleblocked" -> FenCastleBlocked
      [] name = "castlenoright" -> FenCastleNoRight

\* the move names handed to from_uci
UciNames == {"e2e4", "g1f3", "b7b8q", "b7a8q"}

UciText(name) ==
    CASE name = "e2e4" -> <<"e", "2", "e", "4">>
      [] name = "g1f3" -> <<"g", "1", "f", "3">>
      [] name = "b7b8q" -> <<"b", "7", "b", "8", "q">>
      [] name = "b7a8q" -> <<"b", "7", "a", "8", "q">>

\* ------------------------------------------------------------ board machine
\* A board driven through its own operations: load_from_fen, generate_moves,
\* make_move of a generated move, unmake_move of the last move made.
VARIABLES
    overflow_checks,  \* the build: TRUE with integer overflow checks (debug)
    board,            \* the Board
    panicked,         \* a panic has unwound the thread that owned the board
    moves,            \* the list returned by the last generate_moves
    stack,            \* the moves made and not yet unmade, with the board before each
    made,             \* number of make_move calls since the position was loaded
    op,               \* the last operation: its name, argument, outcome, board before
    ret,              \* what the last operation returned: a text or a node count
    position_loaded,  \* CactusEngine.position_loaded
    brain,            \* Brain: thinking, latest_move_is_book_move, cancel_search_timer,
                      \* current_search_id, is_quitting
    cancelled,        \* the CancellationTokens that have been cancelled
    ready,            \* the bool of search_wait_handle
    ready_owner,      \* who holds the mutex of search_wait_handle
    notified,         \* a notify_one the waiting worker has not consumed yet
    searcher_owner,   \* who holds the searcher mutex
    poisoned,         \* the worker panicked holding both mutexes
    search_canceled,  \* Searcher.search_canceled
    wpc,              \* where the search worker thread is
    timers,           \* where the timer thread of each search is
    ctl,              \* where the command loop is
    out,              \* the lines sent through the move-chosen callback
    finished,         \* number of searches the worker has returned from
    ncmd,             \* number of commands received
    last,             \* the last command received and its outcome
    searcher,         \* Searcher: the best move and eval, of the search and of the iteration,
                      \* the killer slots of MoveOrdering that hold a move and its
                      \* history counters that are not zero
    transposition_table, \* the entries of the TranspositionTable
    spc,              \* where Searcher::start_search is
    search_depth,     \* search_depth of run_iterative_deepening_search
    nsearch,          \* number of searches started
    run               \* the search so far: iterations completed, the last one's result

boardVars == <<overflow_checks, board, panicked, moves, stack, made, op, ret>>

engineVars ==
    <<position_loaded, brain, cancelled, ready, ready_owner, notified, searcher_owner,
      poisoned, search_canceled, wpc, timers, ctl, out, finished, ncmd, last>>

searchVars == <<searcher, transposition_table, spc, search_depth, nsearch, run>>

vars == <<boardVars, engineVars, searchVars>>

\* --------------------------------------------------------- RepetitionTable
HASHES_LEN == 256

\* A usize is kept by its two's-complement representative: -1 stands for
\* usize::MAX, the value 0 - 1 wraps to in a build without overflow checks.
USIZE_MAX == -1

\* an array of zeros, kept as the entries written so far
ArrayAt(arr, i) == IF i \in DOMAIN arr THEN arr[i] ELSE 0

ArraySet(arr, i, v) == [j \in DOMAIN arr \cup {i} |-> IF j = i THEN v ELSE arr[j]]

\* RepetitionTable without a position: no hash, every start index 0, count 0
RepetitionTableNew == [hashes |-> <<>>, start_indices |-> <<>>, count |-> 0]

\* RepetitionTable::push: the hash and the start index of the next frame are
\* stored while count < hashes.len(), and count is incremented in any case,
\* which overflows at usize::MAX
RepetitionTable_push(t, hash, reset, checks) ==
    LET fits == t.count >= 0 /\ t.count < HASHES_LEN
        stored == IF fits
                  THEN [t EXCEPT
                          !.hashes = ArraySet(@, t.count, hash),
                          !.start_indices =
                              ArraySet(@, t.count + 1,
                                       IF reset THEN t.count
                                       ELSE ArrayAt(t.start_indices, t.count))]
                  ELSE t
    IN  [ok |-> ~(t.count = USIZE_MAX /\ checks),
         t |-> [stored EXCEPT !.count = t.count + 1]]

\* RepetitionTable::try_pop: self.count = 0.max(self.count - 1) on a usize.
\* At count 0 the subtraction panics with overflow checks and wraps to
\* usize::MAX without, which is the greater of the two.
RepetitionTable_try_pop(t, checks) ==
    [ok |-> ~(t.count = 0 /\ checks),
     t |-> [t EXCEPT !.count = t.count - 1]]

\* RepetitionTable::contains: start_indices[count] panics when count is beyond
\* the HASHES_LEN + 1 start indices
RepetitionTable_contains(t, hash) ==
    LET start == ArrayAt(t.start_indices, t.count)
    IN  [ok |-> t.count \in 0..HASHES_LEN,
         found |-> \E i \in start..(t.count - 1) : ArrayAt(t.hashes, i) = hash]

\* nothing returned
NoRet == [text |-> <<>>, nodes |-> 0]

OpOf(name, arg, mv, result, before) ==
    [name |-> name, arg |-> arg, mv |-> mv, result |-> result, before |-> before]

\* load_from_fen of every input text, computed once for each build.
\* load_from_position begins with reset(), so the outcome reads nothing of the
\* board it is called on.
FenLoads ==
    [checks \in BOOLEAN |->
        [name \in QueryFenNames \cup SearchFenNames \cup CastleFenNames |-> load_from_fen(BoardNew, FenText(name), checks)]]

\* b.load_from_fen(FenText(name))
LoadNamed(b, name, checks) ==
    LET r == FenLoads[checks][name]
    IN  [result |-> r.result, b |-> IF r.result = "ok" THEN r.b ELSE b]

\* Brain::new: Board::new followed by load_start_pos
StartBoard(checks) == LoadNamed(BoardNew, "start", checks).b

\* the command records kept in last
CmdOf(cmd, result, fen, list, running, search) ==
    [cmd |-> cmd, result |-> result, fen |-> fen, list |-> list,
     running |-> running, search |-> search]

\* CactusEngine::new with Brain::new: no position loaded, nothing searched, the
\* worker thread spawned and not yet run
EngineNew ==
    /\ position_loaded = FALSE
    /\ brain = [thinking |-> FALSE, latest_move_is_book_move |-> FALSE,
                cancel_search_timer |-> 0, current_search_id |-> 0, is_quitting |-> FALSE]
    /\ cancelled = {}
    /\ ready = FALSE
    /\ ready_owner = "none"
    /\ notified = FALSE
    /\ searcher_owner = "none"
    /\ poisoned = FALSE
    /\ search_canceled = FALSE
    /\ wpc = "top"
    /\ timers = [t \in 1..MaxCmds |-> "none"]
    /\ ctl = "idle"
    /\ out = <<>>
    /\ finished = 0
    /\ ncmd = 0
    /\ last = CmdOf("", "", "", "", FALSE, 0)
    /\ searcher = [best_move_this_iteration |-> NullMove, best_eval_this_iteration |-> 0,
                   best_move |-> NullMove, best_eval |-> 0,
                   has_searched_at_least_one_move |-> FALSE, current_depth |-> 0,
                   killer_moves |-> {}, history |-> {},
                   repetition_table |-> RepetitionTableNew]
    /\ transposition_table = {}
    /\ spc = "idle"
    /\ search_depth = 0
    /\ nsearch = 0
    /\ run = [completed |-> 0, last_move |-> NullMove, last_eval |-> 0, canceled |-> FALSE]

\* Board::new
InitBoard ==
    /\ overflow_checks \in BOOLEAN
    /\ board = BoardNew
    /\ panicked = FALSE
    /\ moves = <<>>
    /\ stack = <<>>
    /\ made = 0
    /\ op = OpOf("new", "", 0, "ok", BoardNew)
    /\ ret = NoRet
    /\ EngineNew

\* board.load_from_fen(fen)
LoadFen(name) ==
    /\ ~panicked
    /\ \E r \in {LoadNamed(board, name, overflow_checks)} :
        /\ board' = r.b
        /\ panicked' = (r.result = "panic")
        /\ IF r.result = "err" THEN UNCHANGED <<moves, stack, made>>
           ELSE moves' = <<>> /\ stack' = <<>> /\ made' = 0
        /\ op' = OpOf("load", name, 0, r.result, BoardNew)
        /\ ret' = NoRet
        /\ UNCHANGED <<overflow_checks, engineVars, searchVars>>

\* board.generate_moves(captures_only)
Generate(captures_only) ==
    /\ ~panicked
    /\ \E g \in {generate_moves(board, captures_only)} :
        /\ board' = g.b
        /\ panicked' = ~g.ok
        /\ moves' = g.moves
        /\ op' = OpOf("generate", "", 0, IF g.ok THEN "ok" ELSE "panic", BoardNew)
        /\ ret' = NoRet
        /\ UNCHANGED <<overflow_checks, stack, made, engineVars, searchVars>>

\* board.make_move(moves[i], in_search) for a move of the generated list
MakeGenerated(i, in_search) ==
    /\ ~panicked
    /\ made < MaxMade
    /\ \E m \in {make_move(board, moves[i], in_search, overflow_checks)} :
        /\ made' = made + 1
        /\ board' = m.b
        /\ panicked' = ~m.ok
        /\ moves' = <<>>
        /\ stack' = Append(stack, [mv |-> moves[i], in_search |-> in_search, before |-> board])
        /\ op' = OpOf("make", "", moves[i], IF m.ok THEN "ok" ELSE "panic", board)
        /\ ret' = NoRet
        /\ UNCHANGED <<overflow_checks, engineVars, searchVars>>

\* board.unmake_move(mv, in_search) for the last move made, with its flag
Unmake ==
    /\ ~panicked
    /\ stack # <<>>
    /\ \E top \in {stack[Len(stack)]} :
       \E u \in {unmake_move(board, top.mv, top.in_search, overflow_checks)} :
        /\ board' = u.b
        /\ panicked' = ~u.ok
        /\ moves' = <<>>
        /\ stack' = PopBack(stack)
        /\ op' = OpOf("unmake", "", top.mv, IF u.ok THEN "ok" ELSE "panic", top.before)
        /\ ret' = NoRet
        /\ UNCHANGED <<overflow_checks, made, engineVars, searchVars>>

\* board.current_fen(always_show_ep)
CurrentFen(always_show_ep) ==
    /\ ~panicked
    /\ \E r \in {current_fen(board, always_show_ep)} :
        /\ ret' = [text |-> r.fen, nodes |-> 0]
        /\ panicked' = ~r.ok
        /\ op' = OpOf("current_fen", "", 0, IF r.ok THEN "ok" ELSE "panic", board)
        /\ UNCHANGED <<overflow_checks, board, moves, stack, made, engineVars, searchVars>>

NextBoard ==
    \/ \E name \in FenNames : LoadFen(name)
    \/ \E captures_only \in BOOLEAN : Generate(captures_only)
    \/ \E i \in 1..Len(moves), in_search \in BOOLEAN : MakeGenerated(i, in_search)
    \/ Unmake

SpecBoard == InitBoard /\ [][NextBoard]_vars

\* board.make_null_move()
MakeNull ==
    /\ ~panicked
    /\ Len(stack) < MaxNulls
    /\ \E m \in {make_null_move(board)} :
        /\ board' = (IF m.ok THEN m.b ELSE board)
        /\ panicked' = ~m.ok
        /\ moves' = <<>>
        /\ stack' = Append(stack, [mv |-> NullMove, in_search |-> TRUE, before |-> board])
        /\ op' = OpOf("make_null", "", NullMove, IF m.ok THEN "ok" ELSE "panic", board)
        /\ ret' = NoRet
        /\ UNCHANGED <<overflow_checks, made, engineVars, searchVars>>

\* board.unmake_null_move() for the last null move made
UnmakeNull ==
    /\ ~panicked
    /\ stack # <<>>
    /\ \E top \in {stack[Len(stack)]} :
        /\ top.mv = NullMove
        /\ board' = unmake_null_move(board)
        /\ moves' = <<>>
        /\ stack' = PopBack(stack)
        /\ op' = OpOf("unmake_null", "", NullMove, "ok", top.before)
        /\ ret' = NoRet
        /\ UNCHANGED <<overflow_checks, panicked, made, engineVars, searchVars>>

\* A board that is loaded and on which null moves are made and unmade.
NextNull ==
    \/ \E name \in QueryFenNames : LoadFen(name)
    \/ MakeNull
    \/ UnmakeNull

SpecNull == InitBoard /\ [][NextNull]_vars

\* Move::from_uci(&board, name).to_uci()
UciRoundTrip(name) ==
    /\ ~panicked
    /\ \E r \in {from_uci(board, UciText(name))} :
        /\ ret' = [text |-> IF r.ok THEN to_uci(r.mv) ELSE <<>>, nodes |-> 0]
        /\ panicked' = ~r.ok
        /\ op' = OpOf("from_uci", name, r.mv, IF r.ok THEN "ok" ELSE "panic", board)
        /\ UNCHANGED <<overflow_checks, board, moves, stack, made, engineVars, searchVars>>

\* the leaves at the given depth below the start position, counted on a board
\* of its own
Perft(depth) ==
    /\ ~panicked
    /\ \E r \in {perft(StartBoard(overflow_checks), depth, overflow_checks)} :
        /\ ret' = [text |-> <<>>, nodes |-> r.nodes]
        /\ panicked' = ~r.ok
        /\ op' = OpOf("perft", "start", depth, IF r.ok THEN "ok" ELSE "panic", board)
        /\ UNCHANGED <<overflow_checks, board, moves, stack, made, engineVars, searchVars>>

\* A board that is loaded and then asked: its FEN, the move a name stands for,
\* the size of the move tree of the start position.
NextQuery ==
    \/ \E name \in QueryFenNames : LoadFen(name)
    \/ \E always_show_ep \in BOOLEAN : CurrentFen(always_show_ep)
    \/ \E name \in UciNames : UciRoundTrip(name)
    \/ \E depth \in 1..MaxPerftDepth : Perft(depth)

SpecQuery == InitBoard /\ [][NextQuery]_vars

\* ------------------------------------------------- properties of the board
\* The fields a caller can observe.  A piece list is observed as the squares it
\* enumerates.
Observable(b) ==
    [squares |-> b.squares,
     piece_bbs |-> b.piece_bbs,
     color_bbs |-> b.color_bbs,
     all_piece_bb |-> b.all_piece_bb,
     piece_lists |-> [p \in 0..MAX_PIECE_INDEX |-> Range(ListSquares(b.all_piece_lists[p]))],
     king_squares |-> b.king_squares,
     white_to_move |-> b.white_to_move,
     ply_count |-> b.ply_count,
     castling_rights |-> b.state.castling_rights,
     en_passant_file |-> b.state.en_passant_file,
     halfmove_clock |-> b.state.halfmove_clock,
     key |-> b.state.zobrist.key]

\* C1: make_move(m, f) followed by unmake_move(m, f) of a generated move m
\* leaves every observable field (squares, bitboards, piece lists, king squares,
\* side to move, ply count, castling rights, en-passant file, halfmove clock,
\* Zobrist key) equal to its value before the make.
C1_MakeUnmakeRestores ==
    (op.name = "unmake" /\ op.result = "ok") => Observable(board) = Observable(op.before)

\* C2: after loading a FEN and after every make_move or unmake_move of a
\* generated move, bit s of piece_bbs[p] is set iff squares[s] = p, for every
\* coloured piece p and every square s.
C2_BitboardsMatchSquares ==
    (op.name \in {"load", "make", "unmake"} /\ op.result = "ok")
        => \A p \in PIECE_INDICES : \A s \in Squares :
               (s \in board.piece_bbs[p]) <=> (board.squares[s] = p)

\* The key of a position computed from scratch: the (piece, square) words, the
\* side word when Black is to move, the castling word and the en-passant word
\* of the current state.
KeyFromScratch(b) ==
    LET z == ZobristNew
        xor(a, c) == XorSet(a, c)
    IN  xor(xor(Zobrist_key(z, b.squares).key, IF b.white_to_move THEN {} ELSE ZSide(z)),
            xor(ZCastle(z, b.state.castling_rights), ZEp(z, b.state.en_passant_file)))

\* C3: after loading a FEN and after any sequence of make_move calls with
\* generated moves, state.zobrist.key equals the key recomputed from scratch.
C3_KeyMatchesRecompute ==
    (op.name \in {"load", "make"} /\ op.result = "ok")
        => board.state.zobrist.key = KeyFromScratch(board)

\* Chess attack rules, read off the squares array alone.
StepsBetween(a, b) ==
    LET df == file_of_square(b) - file_of_square(a)
        dr == rank_of_square(b) - rank_of_square(a)
        abs(x) == IF x < 0 THEN -x ELSE x
        sgn(x) == IF x < 0 THEN -1 ELSE IF x > 0 THEN 1 ELSE 0
        n == IF abs(df) > abs(dr) THEN abs(df) ELSE abs(dr)
    IN  {a + k * (sgn(df) + 8 * sgn(dr)) : k \in 1..(n - 1)}

SameLine(a, b) ==
    a # b /\ (file_of_square(a) = file_of_square(b) \/ rank_of_square(a) = rank_of_square(b))

SameDiagonal(a, b) ==
    LET df == file_of_square(b) - file_of_square(a)
        dr == rank_of_square(b) - rank_of_square(a)
    IN  a # b /\ (df = dr \/ df = -dr)

PieceAttacks(squares, from, to) ==
    LET p == squares[from]
        t == get_type(p)
        df == file_of_square(to) - file_of_square(from)
        dr == rank_of_square(to) - rank_of_square(from)
        clear == \A m \in StepsBetween(from, to) : squares[m] = NONE
    IN  CASE t = PAWN -> df \in {-1, 1} /\ dr = (IF is_white(p) THEN 1 ELSE -1)
          [] t = KNIGHT -> <<df * df, dr * dr>> \in {<<1, 4>>, <<4, 1>>}
          [] t = KING -> from # to /\ df \in {-1, 0, 1} /\ dr \in {-1, 0, 1}
          [] t = ROOK -> SameLine(from, to) /\ clear
          [] t = BISHOP -> SameDiagonal(from, to) /\ clear
          [] t = QUEEN -> (SameLine(from, to) \/ SameDiagonal(from, to)) /\ clear
          [] OTHER -> FALSE

KingsOf(squares, white) ==
    {s \in Squares : squares[s] = PieceOf(KING, IF white THEN WHITE ELSE BLACK)}

Attacked(squares, sq, by_white) ==
    \E from \in Squares :
        /\ get_type(squares[from]) # NONE
        /\ is_white(squares[from]) = by_white
        /\ PieceAttacks(squares, from, sq)

\* C4: after make_move of a generated move the king of the side that moved is
\* not attacked by any enemy piece.
C4_MoverKingNotAttacked ==
    (op.name = "make" /\ op.result = "ok")
        => \A k \in KingsOf(board.squares, ~board.white_to_move) :
               ~Attacked(board.squares, k, board.white_to_move)

\* the square named by the two characters of a move name at i, by the rules of
\* UCI: file letter, then rank digit
NamedSquare(name, i) ==
    CoordIndex(IndexOf(FILE_NAMES, name[i]) - 1, IndexOf(RANK_NAMES, name[i + 1]) - 1)

\* the rules of chess for a move name at a position, castling and en passant
\* left aside: the piece of the side to move steps as its kind steps, not onto
\* a piece of its own side; a pawn pushes onto empty squares or captures
\* diagonally; the name carries a promotion letter exactly when a pawn reaches
\* the last rank; and the mover's king is not attacked afterwards
LegalName(squares, white, name) ==
    LET from == NamedSquare(name, 1)
        to == NamedSquare(name, 3)
        p == squares[from]
        dir == IF white THEN 8 ELSE -8
        start_rank == IF white THEN 1 ELSE 6
        last_rank == IF white THEN 7 ELSE 0
        after == [squares EXCEPT ![from] = NONE, ![to] = p]
        step == IF get_type(p) = PAWN
                THEN \/ to = from + dir /\ squares[to] = NONE
                     \/ /\ to = from + 2 * dir
                        /\ rank_of_square(from) = start_rank
                        /\ squares[from + dir] = NONE
                        /\ squares[to] = NONE
                     \/ PieceAttacks(squares, from, to) /\ squares[to] # NONE
                ELSE PieceAttacks(squares, from, to)
        promotes == get_type(p) = PAWN /\ rank_of_square(to) = last_rank
    IN  /\ Len(name) \in {4, 5}
        /\ p # NONE
        /\ is_white(p) = white
        /\ squares[to] = NONE \/ is_white(squares[to]) # white
        /\ step
        /\ promotes <=> (Len(name) = 5 /\ name[5] \in {"q", "r", "b", "n"})
        /\ \A k \in KingsOf(after, white) : ~Attacked(after, k, ~white)

\* What a well-formed FEN text is: six fields; eight ranks of eight files each,
\* written with piece letters and the digits 1..8; a side, castling rights, an
\* en-passant square and two numbers.
RECURSIVE RankWidth(_)
RankWidth(chars) ==
    IF chars = <<>> THEN 0
    ELSE (IF IsDigit(Head(chars)) THEN DigitValue(Head(chars)) ELSE 1) + RankWidth(Tail(chars))

PieceLetters == {"p", "n", "b", "r", "q", "k", "P", "N", "B", "R", "Q", "K"}

WellFormedFen(fen) ==
    LET fields == Split(fen, " ")
        ranks == Split(fields[1], "/")
        number(str) == str # <<>> /\ \A i \in 1..Len(str) : IsDigit(str[i])
    IN  /\ Len(fields) = 6
        /\ Len(ranks) = 8
        /\ \A i \in 1..8 :
              /\ Range(ranks[i]) \subseteq PieceLetters \cup {"1", "2", "3", "4", "5", "6", "7", "8"}
              /\ RankWidth(ranks[i]) = 8
        /\ fields[2] \in {<<"w">>, <<"b">>}
        /\ fields[3] # <<>>
        /\ (fields[3] = <<"-">> \/ Range(fields[3]) \subseteq {"K", "Q", "k", "q"})
        /\ \/ fields[4] = <<"-">>
           \/ /\ Len(fields[4]) = 2
              /\ fields[4][1] \in Range(FILE_NAMES)
              /\ fields[4][2] \in {"3", "6"}
        /\ number(fields[5])
        /\ number(fields[6])

\* C8: load_from_fen of a text that is not a well-formed FEN returns an error
\* and leaves the board as it was before the call.
C8_MalformedFenRejected ==
    [][(op'.name = "load" /\ ~WellFormedFen(FenText(op'.arg)))
           => (op'.result = "err" /\ board' = board)]_vars

\* The rules of chess for an en-passant capture onto the square of file
\* file_idx behind the pawn that has just moved two squares: that pawn stands in
\* front of the empty square, a pawn of the side to move stands beside it, and
\* taking leaves the mover's king unattacked.
EpCaptureLegal(squares, white, file_idx) ==
    LET target == (IF white THEN 5 ELSE 2) * 8 + file_idx
        victim == target + (IF white THEN -8 ELSE 8)
        own == PieceOf(PAWN, IF white THEN WHITE ELSE BLACK)
        enemy == PieceOf(PAWN, IF white THEN BLACK ELSE WHITE)
        after(from) == [squares EXCEPT ![from] = NONE, ![victim] = NONE, ![target] = own]
    IN  /\ squares[target] = NONE
        /\ squares[victim] = enemy
        /\ \E from \in {victim - 1, victim + 1} \cap Squares :
               /\ rank_of_square(from) = rank_of_square(victim)
               /\ squares[from] = own
               /\ \A k \in KingsOf(after(from), white) : ~Attacked(after(from), k, ~white)

\* the en-passant field of a well-formed FEN is "-" or names a square on which
\* a legal en-passant capture exists
EpAbsentOrLegal(fen) ==
    LET fields == Split(fen, " ")
        placed == ParsePlacement(fields[1], 0, 7, [s \in Squares |-> 0], TRUE)
    IN  \/ fields[4] = <<"-">>
        \/ /\ placed.ok
           /\ EpCaptureLegal(placed.squares, fields[2] = <<"w">>,
                             IndexOf(FILE_NAMES, fields[4][1]) - 1)

\* C11: loading a well-formed FEN whose en-passant field is "-" or names a
\* legal en-passant capture, and then calling current_fen, returns the text
\* that was loaded: placement, side to move, castling letters, en-passant
\* square, halfmove and fullmove counters.
C11_FenRoundTrip ==
    [][(/\ op.name = "load"
        /\ op.result = "ok"
        /\ op'.name = "current_fen"
        /\ WellFormedFen(FenText(op.arg))
        /\ EpAbsentOrLegal(FenText(op.arg)))
           => (op'.result = "ok" /\ ret'.text = FenText(op.arg))]_vars

\* C12: for a name s of a legal move of the position, from_uci returns the move
\* with the start square, target square and promotion named by s, so that
\* to_uci of it is s again.
C12_UciRoundTrip ==
    (op.name = "from_uci" /\ LegalName(board.squares, board.white_to_move, UciText(op.arg)))
        => (/\ op.result = "ok"
            /\ ret.text = UciText(op.arg)
            /\ start_square(op.mv) = NamedSquare(UciText(op.arg), 1)
            /\ target_square(op.mv) = NamedSquare(UciText(op.arg), 3))

\* the literal leaf counts of the start position at depths 1 to 6
\* the list holds exactly the squares of the bitboard, each once
ListMatches(pl, bb) ==
    /\ pl.num_pieces = Cardinality(bb)
    /\ Range(ListSquares(pl)) = bb

\* C17: after a FEN is loaded and after every make_move and unmake_move, the
\* piece list of each of the 12 colored piece types, kings included, holds
\* exactly the squares set in its bitboard, each once, and so do the lists
\* kept for each type (pawns, knights, bishops, rooks, queens) of each color.
C17_PieceListsMatchBitboards ==
    (op.name \in {"load", "make", "unmake"} /\ op.result = "ok")
        => /\ \A p \in PIECE_INDICES : ListMatches(board.all_piece_lists[p], board.piece_bbs[p])
           /\ \A c \in {ColorWhite, ColorBlack} :
                /\ ListMatches(board.pawns[c], board.piece_bbs[PAWN + to_piece_color(c)])
                /\ ListMatches(board.knights[c], board.piece_bbs[KNIGHT + to_piece_color(c)])
                /\ ListMatches(board.bishops[c], board.piece_bbs[BISHOP + to_piece_color(c)])
                /\ ListMatches(board.rooks[c], board.piece_bbs[ROOK + to_piece_color(c)])
                /\ ListMatches(board.queens[c], board.piece_bbs[QUEEN + to_piece_color(c)])

\* the castling rights as the set of their bits, and back
RightsBits(rights) == {k \in {1, 2, 4, 8} : And4(rights, k) # 0}

RightsOf(bits) ==
    (IF 1 \in bits THEN 1 ELSE 0) + (IF 2 \in bits THEN 2 ELSE 0)
    + (IF 4 \in bits THEN 4 ELSE 0) + (IF 8 \in bits THEN 8 ELSE 0)

\* the rights a move leaves: a king move clears the two bits of the mover, and
\* a move from or to the home square of a corner rook clears that rook's bit
RightsAfter(b, mv) ==
    LET from == start_square(mv)
        to == target_square(mv)
        king_bits == IF get_type(b.squares[from]) # KING THEN {}
                     ELSE IF b.white_to_move THEN {1, 2} ELSE {4, 8}
        rook_bits == (IF H1 \in {from, to} THEN {1} ELSE {})
                     \cup (IF A1 \in {from, to} THEN {2} ELSE {})
                     \cup (IF H8 \in {from, to} THEN {4} ELSE {})
                     \cup (IF A8 \in {from, to} THEN {8} ELSE {})
    IN  RightsOf(RightsBits(b.state.castling_rights) \ (king_bits \cup rook_bits))

\* C18: after make_move the castling rights of the current state are the
\* rights before the move without the two bits of the mover when a king
\* moved, and without the bit of each corner rook whose home square is the
\* origin or the destination of the move; no other bit changes.
C18_CastlingRightsAfterMove ==
    [][(op'.name = "make" /\ op'.result = "ok")
        => board'.state.castling_rights = RightsAfter(board, op'.mv)]_vars

\* the move is a pawn move or a capture
PawnMoveOrCapture(b, mv) ==
    \/ get_type(b.squares[start_square(mv)]) = PAWN
    \/ b.squares[target_square(mv)] # NONE
    \/ move_flag(mv) = EN_PASSANT_CAPTURE_FLAG

\* C19: after make_move the halfmove clock of the current state is 0 when the
\* move is a pawn move or a capture, and else the clock before the move plus 1.
C19_HalfmoveClockAfterMove ==
    [][(op'.name = "make" /\ op'.result = "ok")
        => board'.state.halfmove_clock =
              (IF PawnMoveOrCapture(board, op'.mv) THEN 0
               ELSE board.state.halfmove_clock + 1)]_vars

\* C20: make_null_move changes only the side to move, the Zobrist key (by the
\* side word and the word of the cleared en-passant file) and the en-passant
\* file, which becomes none: squares, bitboards, piece lists, king squares,
\* castling rights and halfmove clock are unchanged; unmake_null_move then
\* restores the state that was current before make_null_move.
C20_NullMoveFrame ==
    [][/\ (op'.name = "make_null" /\ op'.result = "ok")
            => /\ board'.white_to_move = ~board.white_to_move
               /\ board'.state.en_passant_file = 0
               /\ board'.state.zobrist.key =
                      XorSet(XorSet(board.state.zobrist.key, ZSide(board.state.zobrist)),
                             ZEp(board.state.zobrist, board.state.en_passant_file))
               /\ board'.squares = board.squares
               /\ board'.piece_bbs = board.piece_bbs
               /\ board'.color_bbs = board.color_bbs
               /\ board'.all_piece_bb = board.all_piece_bb
               /\ board'.all_piece_lists = board.all_piece_lists
               /\ board'.king_squares = board.king_squares
               /\ board'.state.castling_rights = board.state.castling_rights
               /\ board'.state.halfmove_clock = board.state.halfmove_clock
       /\ (op'.name = "unmake_null")
            => /\ board'.state = op'.before.state
               /\ board'.white_to_move = op'.before.white_to_move]_vars

PerftNodes == <<20, 400, 8902, 197281, 4865609, 119060324>>

\* C13: the move tree of the start position built with generate_moves(false),
\* make_move and unmake_move has 20 leaves at depth 1, 400 at depth 2 and
\* 8902 at depth 3.
C13_PerftStartPosition ==
    (op.name = "perft") => (op.result = "ok" /\ ret.nodes = PerftNodes[op.mv])


\* ---------------------------------------------------------------------------
\* The engine: the command loop of the driver, the Brain, the search worker
\* thread and the timer threads
\* ---------------------------------------------------------------------------

\* the move lists of the position commands
MoveListNames == {"none", "e2e4", "e2e5", "e2e5q", "two"}

MoveListText(name) ==
    CASE name = "none" -> <<>>
      [] name = "e2e4" -> <<<<"e", "2", "e", "4">>>>
      [] name = "e2e5" -> <<<<"e", "2", "e", "5">>>>
      [] name = "e2e5q" -> <<<<"e", "2", "e", "5", "q">>>>
      [] name = "two" -> <<<<"e", "2", "e", "5", "q">>, <<"g", "1", "f", "3", "n">>>>

\* the position commands: "position startpos moves ..." and "position fen ..."
PositionCmds ==
    {[kind |-> "startpos", fen |-> "start", list |-> l] : l \in MoveListNames}
    \cup {[kind |-> "fen", fen |-> f, list |-> "none"] :
              f \in {"capture", "enpassant", "twosections"}}

\* the loop over the moves of process_position_cmd: player.make_move(mv)? for
\* each word after "moves"
RECURSIVE ApplyMoves(_, _, _)
ApplyMoves(b, list, checks) ==
    IF list = <<>> THEN [ok |-> TRUE, b |-> b]
    ELSE CHOOSE a \in {IF ~r.ok THEN [ok |-> FALSE, b |-> r.b]
                       ELSE ApplyMoves(r.b, Tail(list), checks) :
                       r \in {Brain_make_move(b, Head(list), checks)}} : TRUE

\* process_position_cmd on a fresh board; load_from_position resets the board
\* first, so the outcome does not depend on the board before the command
PositionOutcomes ==
    [checks \in BOOLEAN |->
        [c \in PositionCmds |->
            CHOOSE o \in {IF l.result # "ok" THEN [result |-> l.result, b |-> BoardNew]
                           ELSE [result |-> IF a.ok THEN "ok" ELSE "panic", b |-> a.b] :
                           l \in {FenLoads[checks][c.fen]},
                           a \in {ApplyMoves(FenLoads[checks][c.fen].b,
                                             MoveListText(c.list), checks)}} : TRUE]]

MAX_BOOK_PLY == 16

\* Brain::try_get_opening_move: the key handed to the book is current_fen(false),
\* which starts with "true" or "false" and has no placement, so no record of a
\* book of FEN texts matches it: the lookup panics or misses
try_get_opening_move(b) ==
    IF b.ply_count <= MAX_BOOK_PLY /\ current_fen_panics(b) THEN "panic" ELSE "none"

\* process_go_command never starts a search for this value of position_loaded
go_never_rejected(loaded) == FALSE

\* process_go_command: if !self.position_loaded { return Err(..) }
go_rejected(loaded) == ~loaded


outsideEngine == <<overflow_checks, panicked, moves, stack, made, op, ret, searchVars>>

\* "position ...": process_position_cmd. An Err of set_position returns before
\* anything is stored; otherwise the moves are applied one after the other and
\* position_loaded is set. A panic ends the command loop.
CmdPosition(c) ==
    \E r \in {PositionOutcomes[overflow_checks][c]} :
        /\ ctl = "idle"
        /\ ncmd < MaxCmds
        /\ ncmd' = ncmd + 1
        /\ board' = (IF r.result = "err" THEN board ELSE r.b)
        /\ position_loaded' = (IF r.result = "ok" THEN TRUE ELSE position_loaded)
        /\ ctl' = (IF r.result = "panic" THEN "panicked" ELSE "idle")
        /\ last' = CmdOf("position", r.result, c.fen, c.list, FALSE, 0)
        /\ UNCHANGED <<outsideEngine, brain, cancelled, ready, ready_owner, notified,
                       searcher_owner, poisoned, search_canceled, wpc, timers, out,
                       finished>>

\* "go": process_go_command up to the lock of search_wait_handle in
\* Brain::start_search. Without a loaded position the command returns Err at
\* once. Otherwise think_timed clears latest_move_is_book_move, sets thinking,
\* cancels the timer of the search before, asks the book, and start_search
\* counts the search and goes for the lock.
CmdGo ==
    LET book == try_get_opening_move(board)
        old == brain.cancel_search_timer
    IN  /\ ctl = "idle"
        /\ ncmd < MaxCmds
        /\ ncmd' = ncmd + 1
        /\ IF go_rejected(position_loaded)
           THEN /\ last' = CmdOf("go", "err", "", "", FALSE, 0)
                /\ UNCHANGED <<brain, cancelled, ctl>>
           ELSE /\ cancelled' = (IF old = 0 THEN cancelled ELSE cancelled \cup {old})
                /\ IF book = "panic"
                   THEN /\ brain' = [brain EXCEPT !.latest_move_is_book_move = FALSE,
                                                  !.thinking = TRUE]
                        /\ ctl' = "panicked"
                        /\ last' = CmdOf("go", "panic", "", "", FALSE, 0)
                   ELSE /\ brain' = [brain EXCEPT !.latest_move_is_book_move = FALSE,
                                                  !.thinking = TRUE,
                                                  !.current_search_id = @ + 1]
                        /\ ctl' = "go_lock"
                        /\ last' = CmdOf("go", "pending", "", "", FALSE, 0)
        /\ UNCHANGED <<board, outsideEngine, position_loaded, ready, ready_owner, notified,
                       searcher_owner, poisoned, search_canceled, wpc, timers, out,
                       finished>>

\* the rest of "go": with the lock of search_wait_handle, start_search sets
\* ready, notifies the worker, stores a new CancellationToken and spawns the
\* timer thread; process_go_command clears position_loaded. A poisoned lock
\* makes start_search return Err, and position_loaded stays.
GoStart ==
    LET id == brain.current_search_id
    IN  /\ ctl = "go_lock"
        /\ ready_owner = "none"
        /\ ctl' = "idle"
        /\ IF poisoned
           THEN /\ last' = [last EXCEPT !.result = "err"]
                /\ UNCHANGED <<ready, notified, brain, timers, position_loaded>>
           ELSE /\ ready' = TRUE
                /\ notified' = (notified \/ wpc = "waiting")
                /\ brain' = [brain EXCEPT !.cancel_search_timer = id]
                /\ timers' = [timers EXCEPT ![id] = "sleeping"]
                /\ position_loaded' = FALSE
                /\ last' = [last EXCEPT !.result = "ok"]
        /\ UNCHANGED <<board, outsideEngine, cancelled, ready_owner, searcher_owner,
                       poisoned, search_canceled, wpc, out, finished, ncmd>>

\* "stop" and "quit" up to the lock of the searcher in Brain::end_search: quit
\* sets is_quitting first; end_search cancels the timer token and goes for the
\* searcher
CmdStop(quit) ==
    LET old == brain.cancel_search_timer
    IN  /\ ctl = "idle"
        /\ ncmd < MaxCmds
        /\ ncmd' = ncmd + 1
        /\ brain' = [brain EXCEPT !.is_quitting = (@ \/ quit)]
        /\ cancelled' = (IF old = 0 THEN cancelled ELSE cancelled \cup {old})
        /\ ctl' = (IF quit THEN "quit_lock" ELSE "stop_lock")
        /\ last' = CmdOf(IF quit THEN "quit" ELSE "stop", "pending", "", "",
                         wpc = "searching", finished + 1)
        /\ UNCHANGED <<board, outsideEngine, position_loaded, ready, ready_owner, notified,
                       searcher_owner, poisoned, search_canceled, wpc, timers, out,
                       finished>>

\* the rest of end_search: if let Ok(mut searcher) = self.searcher.lock()
\* { searcher.end_search() }. The lock is granted when no thread holds the
\* searcher; a poisoned lock skips the call. After quit the command loop ends.
StopFinish ==
    /\ ctl \in {"stop_lock", "quit_lock"}
    /\ searcher_owner = "none"
    /\ search_canceled' = (IF poisoned THEN search_canceled ELSE TRUE)
    /\ ctl' = (IF ctl = "quit_lock" THEN "exited" ELSE "idle")
    /\ last' = [last EXCEPT !.result = "ok"]
    /\ UNCHANGED <<board, outsideEngine, position_loaded, brain, cancelled, ready,
                   ready_owner, notified, searcher_owner, poisoned, wpc, timers, out,
                   finished, ncmd>>


\* the worker at the top of its loop: it leaves when is_quitting is set, else it
\* takes the lock of search_wait_handle
WorkerTop ==
    /\ wpc = "top"
    /\ IF brain.is_quitting
       THEN wpc' = "exited" /\ UNCHANGED ready_owner
       ELSE /\ ready_owner = "none"
            /\ ready_owner' = "worker"
            /\ wpc' = "locked"
    /\ UNCHANGED <<board, outsideEngine, position_loaded, brain, cancelled, ready, notified,
                   searcher_owner, poisoned, search_canceled, timers, ctl, out, finished,
                   ncmd, last>>

\* while !*ready && !*is_quitting: cvar.wait gives the lock back and sleeps
WorkerWait ==
    /\ wpc = "locked"
    /\ ~ready /\ ~brain.is_quitting
    /\ wpc' = "waiting"
    /\ ready_owner' = "none"
    /\ UNCHANGED <<board, outsideEngine, position_loaded, brain, cancelled, ready, notified,
                   searcher_owner, poisoned, search_canceled, timers, ctl, out, finished,
                   ncmd, last>>

\* notify_one wakes the sleeping worker, which takes the lock again
WorkerWake ==
    /\ wpc = "waiting"
    /\ notified
    /\ ready_owner = "none"
    /\ notified' = FALSE
    /\ ready_owner' = "worker"
    /\ wpc' = "locked"
    /\ UNCHANGED <<board, outsideEngine, position_loaded, brain, cancelled, ready,
                   searcher_owner, poisoned, search_canceled, timers, ctl, out, finished,
                   ncmd, last>>

\* past the wait: *ready = false, the searcher is locked and
\* Searcher::start_search begins by clearing search_canceled. The lock of
\* search_wait_handle stays held until the end of the loop body.
WorkerBeginSearch ==
    /\ wpc = "locked"
    /\ ready \/ brain.is_quitting
    /\ searcher_owner = "none"
    /\ ready' = FALSE
    /\ searcher_owner' = "worker"
    /\ search_canceled' = FALSE
    /\ wpc' = "searching"
    /\ UNCHANGED <<board, outsideEngine, position_loaded, brain, cancelled, ready_owner,
                   notified, poisoned, timers, ctl, out, finished, ncmd, last>>

\* the poll at the head of Searcher::search: a set flag ends the search, and so
\* does the searcher's own clock, which sets the flag itself
SearchPoll(expired) ==
    /\ wpc = "searching"
    /\ IF search_canceled \/ expired
       THEN search_canceled' = TRUE /\ wpc' = "unwinding"
       ELSE UNCHANGED <<search_canceled, wpc>>
    /\ UNCHANGED <<board, outsideEngine, position_loaded, brain, cancelled, ready,
                   ready_owner, notified, searcher_owner, poisoned, timers, ctl, out,
                   finished, ncmd, last>>

\* Searcher::start_search returns, after the last iteration or after a
\* cancelled one: search_canceled is cleared, the worker drops both locks and
\* goes back to the top of its loop. Nothing is sent to the callback.
SearchReturn ==
    /\ wpc \in {"searching", "unwinding"}
    /\ search_canceled' = FALSE
    /\ searcher_owner' = "none"
    /\ ready_owner' = "none"
    /\ finished' = finished + 1
    /\ wpc' = "top"
    /\ UNCHANGED <<board, outsideEngine, position_loaded, brain, cancelled, ready, notified,
                   poisoned, timers, ctl, out, ncmd, last>>

\* a panic inside the search (order_moves, is_in_check) ends the worker and
\* poisons the two locks it holds
SearchPanic ==
    /\ wpc = "searching"
    /\ wpc' = "panicked"
    /\ poisoned' = TRUE
    /\ searcher_owner' = "none"
    /\ ready_owner' = "none"
    /\ UNCHANGED <<board, outsideEngine, position_loaded, brain, cancelled, ready, notified,
                   search_canceled, timers, ctl, out, finished, ncmd, last>>

\* the timer thread of search t after its sleep: it returns when its token is
\* cancelled or the engine is quitting, else it goes for the searcher
TimerWake(t) ==
    /\ timers[t] = "sleeping"
    /\ timers' = [timers EXCEPT ![t] = IF t \in cancelled \/ brain.is_quitting
                                       THEN "done" ELSE "locking"]
    /\ UNCHANGED <<board, outsideEngine, position_loaded, brain, cancelled, ready,
                   ready_owner, notified, searcher_owner, poisoned, search_canceled, wpc,
                   ctl, out, finished, ncmd, last>>

\* the timer thread with the searcher: if let Ok(mut s) = searcher.lock()
\* { s.end_search() }
TimerEnd(t) ==
    /\ timers[t] = "locking"
    /\ searcher_owner = "none"
    /\ timers' = [timers EXCEPT ![t] = "done"]
    /\ search_canceled' = (IF poisoned THEN search_canceled ELSE TRUE)
    /\ UNCHANGED <<board, outsideEngine, position_loaded, brain, cancelled, ready,
                   ready_owner, notified, searcher_owner, poisoned, wpc, ctl, out,
                   finished, ncmd, last>>

\* Brain::new loads the start position into its board
InitEngine ==
    /\ overflow_checks \in BOOLEAN
    /\ board = StartBoard(overflow_checks)
    /\ panicked = FALSE
    /\ moves = <<>>
    /\ stack = <<>>
    /\ made = 0
    /\ op = OpOf("new", "", 0, "ok", BoardNew)
    /\ ret = NoRet
    /\ EngineNew

NextEngine ==
    \/ \E c \in PositionCmds : CmdPosition(c)
    \/ CmdGo
    \/ GoStart
    \/ \E quit \in BOOLEAN : CmdStop(quit)
    \/ StopFinish
    \/ WorkerTop
    \/ WorkerWait
    \/ WorkerWake
    \/ WorkerBeginSearch
    \/ \E expired \in BOOLEAN : SearchPoll(expired)
    \/ SearchReturn
    \/ SearchPanic
    \/ \E t \in 1..MaxCmds : TimerWake(t)
    \/ \E t \in 1..MaxCmds : TimerEnd(t)

SpecEngine == InitEngine /\ [][NextEngine]_vars

\* C5: when a search ends the worker publishes the best move before it waits
\* for the next request: every search the worker has returned from has put a
\* bestmove line on the output.
C5_SearchEndPublishes == finished <= Len(out)

\* C6: a stop or quit received while a search is running sets the cancellation
\* flag while that search is still running.
C6_StopCancelsRunningSearch ==
    [][(ctl \in {"stop_lock", "quit_lock"} /\ ctl' \notin {"stop_lock", "quit_lock"}
        /\ last.running)
       => (search_canceled' /\ wpc' = "searching" /\ finished' + 1 = last.search)]_vars

\* C9: a go received while no position is loaded is rejected with an error and
\* has no side effect: no search is counted or started, the worker is not
\* woken, no timer is armed, and board, searcher flag and position_loaded stay.
C9_GoWithoutPositionRejected ==
    [][(ctl = "idle" /\ ~position_loaded /\ ncmd' = ncmd + 1 /\ last'.cmd = "go")
       => (/\ last'.result = "err"
           /\ UNCHANGED <<board, position_loaded, brain, cancelled, ready, ready_owner,
                          notified, searcher_owner, poisoned, search_canceled, wpc,
                          timers, ctl, out, finished>>)]_vars

\* a go is rejected while the search of an earlier go is running
C9_Witness ==
    /\ last.cmd = "go"
    /\ last.result = "err"
    /\ ~position_loaded
    /\ brain.current_search_id > 0
    /\ wpc = "searching"

\* C10: a position command whose moves are all illegal at the loaded position
\* skips each of them: the command succeeds and the board is the loaded
\* position, as after the same command without moves.
C10_IllegalMovesSkipped ==
    \A loaded \in {FenLoads[overflow_checks][IF last.cmd = "position" THEN last.fen
                                             ELSE "start"].b} :
        (/\ last.cmd = "position"
         /\ last.list # "none"
         /\ \A i \in DOMAIN MoveListText(last.list) :
                ~LegalName(loaded.squares, loaded.white_to_move, MoveListText(last.list)[i]))
            => (last.result = "ok" /\ Observable(board) = Observable(loaded))

\* the go commands accepted so far: each one that passed Brain::start_search
\* spawned the timer thread of its search
AcceptedGos == Cardinality({t \in 1..MaxCmds : timers[t] # "none"})

\* the runs of Searcher::start_search the worker has begun
StartedSearches ==
    finished + (IF wpc \in {"searching", "unwinding", "panicked"} THEN 1 ELSE 0)

\* C15: each accepted go causes exactly one wake of the worker and one run of
\* start_search: no request is served twice (the worker never begins more
\* searches than go commands were accepted), and none is lost (when the worker
\* waits with no request pending, it has begun one search for each accepted
\* go). Stated while the engine is not quitting.
C15_GoWakesOnce ==
    ~brain.is_quitting =>
        /\ StartedSearches <= AcceptedGos
        /\ (wpc = "waiting" /\ ~ready /\ ctl = "idle") => StartedSearches = AcceptedGos

\* C16: searches never overlap: when the worker begins the run of start_search
\* a go has requested, no other run is in progress (nobody holds the
\* searcher), and every search begun before has finished and published its
\* result.
C16_SearchesDoNotOverlap ==
    [][(wpc # "searching" /\ wpc' = "searching" /\ ready)
        => (/\ searcher_owner = "none"
            /\ StartedSearches = finished
            /\ Len(out) >= finished)]_vars

\* C29: the timer thread of a search does not call Searcher::end_search once a
\* later go has been accepted (the token stored by Brain::start_search belongs
\* to a later search) and the worker has begun a search after it (ready, set
\* by that go, is cleared again).
C29_StaleTimerDoesNotEndSearch ==
    [][\A t \in 1..MaxCmds :
          (timers[t] = "locking" /\ timers'[t] = "done" /\ ~poisoned)
              => ~(brain.cancel_search_timer > t /\ ~ready)]_vars

\* The threads of the engine are scheduled fairly: a step of the worker, of a
\* timer thread or of a command under way that stays possible is taken in the
\* end, and a search returns (its depth and its clock are bounded) or panics.
\* No fairness is asked of the commands, which come from outside.
SpecEngineFair ==
    /\ SpecEngine
    /\ WF_vars(GoStart)
    /\ WF_vars(StopFinish)
    /\ WF_vars(WorkerTop)
    /\ WF_vars(WorkerWait)
    /\ WF_vars(WorkerWake)
    /\ WF_vars(WorkerBeginSearch)
    /\ WF_vars(SearchReturn \/ SearchPanic)
    /\ \A t \in 1..MaxCmds : WF_vars(TimerWake(t)) /\ WF_vars(TimerEnd(t))

\* C30: once Brain::quit has set is_quitting the worker thread terminates in
\* the end, whether it was running a search or waiting on the condition
\* variable.
C30_QuitEndsWorker == brain.is_quitting ~> (wpc \in {"exited", "panicked"})


\* ---------------------------------------------------------------------------
\* The searcher: Searcher::start_search, one iteration of
\* run_iterative_deepening_search at a time
\* ---------------------------------------------------------------------------

IMMEDIATE_MATE_SCORE == 100000

POSITIVE_INFINITY == 9999999

NEGATIVE_INFINITY == -POSITIVE_INFINITY

MAX_MATE_DEPTH == 1000

MAX_PLY == 256

I32_MIN == -2147483647 - 1

LOOKUP_FAILED == -1

EXACT == 0

LOWER_BOUND == 1

UPPER_BOUND == 2

Abs(x) == IF x < 0 THEN -x ELSE x

Signum(x) == IF x < 0 THEN -1 ELSE IF x > 0 THEN 1 ELSE 0

is_mate_score(score) ==
    IF score = I32_MIN THEN FALSE ELSE Abs(score) > IMMEDIATE_MATE_SCORE - MAX_MATE_DEPTH

num_ply_to_mate_from_score(score) == IMMEDIATE_MATE_SCORE - Abs(score)

correct_mate_score_for_storage(score, num_ply_searched) ==
    IF is_mate_score(score)
    THEN (score * Signum(score) + num_ply_searched) * Signum(score)
    ELSE score

correct_retrieved_mate_score(score, num_ply_searched) ==
    IF is_mate_score(score)
    THEN (score * Signum(score) - num_ply_searched) * Signum(score)
    ELSE score

\* the entry of the slot of a key; the table has one slot for each key here,
\* so two keys never share a slot
EntriesOf(table, key) == {e \in table : e.key = key}

\* TranspositionTable::lookup_evaluation
lookup_evaluation(table, key, depth, ply_from_root, alpha, beta) ==
    IF \E e \in EntriesOf(table, key) : e.depth >= depth
    THEN LET entry == CHOOSE e \in EntriesOf(table, key) : TRUE
             corrected_score == correct_retrieved_mate_score(entry.value, ply_from_root)
         IN  CASE entry.node_type = EXACT -> corrected_score
               [] entry.node_type = UPPER_BOUND /\ corrected_score <= alpha -> corrected_score
               [] entry.node_type = LOWER_BOUND /\ corrected_score >= beta -> corrected_score
               [] OTHER -> LOOKUP_FAILED
    ELSE LOOKUP_FAILED

\* TranspositionTable::store_evaluation; the depth is kept as a u8
store_evaluation(table, mv, key, depth, num_ply_searched, eval, eval_type) ==
    (table \ EntriesOf(table, key))
    \cup {[key |-> key, value |-> correct_mate_score_for_storage(eval, num_ply_searched),
           mv |-> mv, depth |-> depth % 256, node_type |-> eval_type]}

\* MoveOrdering::order_moves ends in quicksort(moves, scores, 0, moves.len() - 1).
\* An empty list panics in every build; partition computes low - 1 at low = 0,
\* which panics with overflow checks as soon as there are two moves, and
\* without them whenever the first pivot has no greater score before it. The
\* scores come from piece values and square tables that are not in the
\* source, so that last outcome is an input.
order_moves_panics(count, checks, sorted_well) ==
    count = 0 \/ (count >= 2 /\ (checks \/ ~sorted_well))


engineIdle ==
    <<position_loaded, brain, cancelled, ready, ready_owner, notified, searcher_owner,
      poisoned, wpc, timers, ctl, out, finished, ncmd, last>>

boardIdle == <<overflow_checks, panicked, moves, stack, made, op, ret>>

\* Brain::set_position between two searches
SearchSetPosition(name) ==
    /\ spc \in {"idle", "returned"}
    /\ board' = LoadNamed(board, name, overflow_checks).b
    /\ UNCHANGED <<boardIdle, engineVars, searchVars>>

\* Searcher::clear_for_new_position between two searches
ClearForNewPosition ==
    /\ spc \in {"idle", "returned"}
    /\ transposition_table' = {}
    /\ UNCHANGED <<board, boardIdle, engineVars, searcher, spc, search_depth, nsearch, run>>

\* the ucinewgame command between two searches, or after a search has
\* panicked: Brain::notify_new_game locks the searcher and calls
\* clear_for_new_position, which clears the transposition table and the killer
\* moves. A search that panicked did so in the worker thread with the searcher
\* locked, so the lock fails, notify_new_game returns Err before clearing
\* anything, and the command loop discards the Err.
NotifyNewGame ==
    /\ spc \in {"idle", "returned", "panicked"}
    /\ ncmd < MaxCmds
    /\ ncmd' = ncmd + 1
    /\ IF spc = "panicked"
       THEN /\ last' = CmdOf("ucinewgame", "err", "", "", FALSE, nsearch)
            /\ UNCHANGED <<searcher, transposition_table>>
       ELSE /\ last' = CmdOf("ucinewgame", "ok", "", "", FALSE, nsearch)
            /\ transposition_table' = {}
            /\ searcher' = [searcher EXCEPT !.killer_moves = {}]
    /\ UNCHANGED <<board, boardIdle, position_loaded, brain, cancelled, ready, ready_owner,
                   notified, searcher_owner, poisoned, search_canceled, wpc, timers, ctl,
                   out, finished, spc, search_depth, nsearch, run>>

\* Searcher::start_search up to the first iteration: the evals are zeroed, the
\* moves nulled, current_depth and search_canceled cleared
StartSearch ==
    /\ spc \in {"idle", "returned"}
    /\ nsearch < MaxSearches
    /\ nsearch' = nsearch + 1
    /\ searcher' = [searcher EXCEPT !.best_eval_this_iteration = 0,
                                    !.best_eval = 0,
                                    !.best_move_this_iteration = NullMove,
                                    !.best_move = NullMove,
                                    !.history = {},
                                    !.current_depth = 0]
    /\ search_canceled' = FALSE
    /\ search_depth' = 1
    /\ spc' = "iterating"
    /\ run' = [completed |-> 0, last_move |-> NullMove, last_eval |-> 0, canceled |-> FALSE]
    /\ UNCHANGED <<board, boardIdle, engineIdle, transposition_table>>

\* the end of an iteration that was not cancelled: its move and eval become
\* best_move and best_eval, the iteration's own are reset, and a mate score
\* within the depth or the last depth ends the loop
CompleteIteration(mv, eval) ==
    /\ searcher' = [searcher EXCEPT !.has_searched_at_least_one_move = FALSE,
                                    !.current_depth = search_depth,
                                    !.best_move = mv,
                                    !.best_eval = eval,
                                    !.best_eval_this_iteration = I32_MIN,
                                    !.best_move_this_iteration = NullMove]
    /\ run' = [run EXCEPT !.completed = @ + 1, !.last_move = mv, !.last_eval = eval]
    /\ IF \/ is_mate_score(eval) /\ num_ply_to_mate_from_score(eval) <= search_depth
          \/ search_depth = MAX_PLY
       THEN spc' = "ending" /\ UNCHANGED search_depth
       ELSE spc' = "iterating" /\ search_depth' = search_depth + 1

\* one pass of the loop of run_iterative_deepening_search with its call of
\* Searcher::search at the root. The poll returns when the flag is set or the
\* searcher's clock has run out; a usable entry of the transposition table
\* gives the iteration its move and eval; otherwise the moves are generated and
\* ordered, and the loop over them stops before the first move when some piece
\* list counts one piece, and else makes the first move and asks is_in_check,
\* which is todo!().
\* ret keeps the value Searcher::search returned, if it returned.
Iteration(expired, sorted_well) ==
    /\ spc = "iterating"
    /\ search_depth <= MaxIterations \/ expired
    /\ \E g \in {generate_moves(board, FALSE)} :
        LET key == board.state.zobrist.key
            tt_val == lookup_evaluation(transposition_table, key, search_depth, 0,
                                        NEGATIVE_INFINITY, POSITIVE_INFINITY)
            entry == CHOOSE e \in EntriesOf(transposition_table, key) : TRUE
            stops == \E p \in 0..MAX_PIECE_INDEX : g.b.all_piece_lists[p].num_pieces = 1
        IN  IF search_canceled \/ expired
            THEN /\ search_canceled' = TRUE
                 /\ searcher' = [searcher EXCEPT !.has_searched_at_least_one_move = FALSE]
                 /\ run' = [run EXCEPT !.canceled = TRUE]
                 /\ spc' = "ending"
                 /\ ret' = [value |-> 0]
                 /\ UNCHANGED <<board, transposition_table, search_depth>>
            ELSE IF tt_val # LOOKUP_FAILED
            THEN /\ CompleteIteration(entry.mv, entry.value)
                 /\ ret' = [value |-> tt_val]
                 /\ UNCHANGED <<board, transposition_table, search_canceled>>
            ELSE IF ~g.ok \/ order_moves_panics(Len(g.moves), overflow_checks, sorted_well)
                    \/ ~stops
            THEN /\ spc' = "panicked"
                 /\ searcher' = [searcher EXCEPT !.has_searched_at_least_one_move = FALSE]
                 /\ ret' = NoRet
                 /\ UNCHANGED <<board, transposition_table, search_canceled, search_depth,
                                run>>
            ELSE /\ board' = g.b
                 /\ transposition_table' =
                        store_evaluation(transposition_table, NullMove, key, search_depth,
                                         0, NEGATIVE_INFINITY, UPPER_BOUND)
                 /\ CompleteIteration(searcher.best_move_this_iteration,
                                      searcher.best_eval_this_iteration)
                 /\ ret' = [value |-> NEGATIVE_INFINITY]
                 /\ UNCHANGED search_canceled
    /\ UNCHANGED <<overflow_checks, panicked, moves, stack, made, op, engineIdle, nsearch>>

\* the end of Searcher::start_search: a null best_move is replaced by the
\* first generated move, and search_canceled is cleared
FinishSearch ==
    /\ spc = "ending"
    /\ \E g \in {generate_moves(board, FALSE)} :
        IF searcher.best_move # NullMove
        THEN /\ spc' = "returned"
             /\ search_canceled' = FALSE
             /\ UNCHANGED <<board, searcher>>
        ELSE IF ~g.ok \/ g.moves = <<>>
        THEN /\ spc' = "panicked"
             /\ UNCHANGED <<board, searcher, search_canceled>>
        ELSE /\ spc' = "returned"
             /\ board' = g.b
             /\ searcher' = [searcher EXCEPT !.best_move = g.moves[1]]
             /\ search_canceled' = FALSE
    /\ UNCHANGED <<boardIdle, engineIdle, transposition_table, search_depth, nsearch, run>>

NextSearch ==
    \/ \E name \in SearchFenNames : SearchSetPosition(name)
    \/ ClearForNewPosition
    \/ NotifyNewGame
    \/ StartSearch
    \/ \E expired \in BOOLEAN, sorted_well \in BOOLEAN : Iteration(expired, sorted_well)
    \/ FinishSearch

SpecSearch == InitEngine /\ [][NextSearch]_vars

SquareName(sq) == <<FILE_NAMES[file_of_square(sq) + 1], RANK_NAMES[rank_of_square(sq) + 1]>>

NoLegalMove(squares, white) ==
    \A from \in {s \in Squares : squares[s] # NONE /\ is_white(squares[s]) = white} :
        \A to \in Squares, promotion \in {<<>>, <<"q">>} :
            ~LegalName(squares, white, SquareName(from) \o SquareName(to) \o promotion)

InCheck(squares, white) == \E k \in KingsOf(squares, white) : Attacked(squares, k, ~white)

\* C26: search at the root with remaining depth > 0, neither cancelled nor
\* answered by the transposition table, on a position where the side to move
\* has no legal move, does not fail and returns -(100000 - ply_from_root) when
\* that side is in check and 0 otherwise.
C26_NoLegalMoveScore ==
    [][(/\ spc = "iterating"
        /\ ~run'.canceled
        /\ lookup_evaluation(transposition_table, board.state.zobrist.key, search_depth, 0,
                             NEGATIVE_INFINITY, POSITIVE_INFINITY) = LOOKUP_FAILED
        /\ NoLegalMove(board.squares, board.white_to_move))
        => (/\ spc' # "panicked"
            /\ ret'.value = (IF InCheck(board.squares, board.white_to_move)
                             THEN -(IMMEDIATE_MATE_SCORE - 0) ELSE 0))]_vars

\* ---------------------------------------------------------------------------
\* The transposition table with its slots: stores and probes of keys that
\* share a slot
\* ---------------------------------------------------------------------------

TRANSPOSITION_TABLE_SIZE_MB == 64

\* Entry::SIZE_BYTES, size_of::<Option<Entry>>(): u64, i32, u16, u8, u8 and
\* the discriminant, aligned to 8
ENTRY_SIZE_BYTES == 24

\* TranspositionTable::new: count
num_entries == (TRANSPOSITION_TABLE_SIZE_MB * 1024 * 1024) \div ENTRY_SIZE_BYTES

\* TranspositionTable::index
index(key) == key % num_entries

\* self.entries[self.index(board)]: the entry of the slot of the key, whatever
\* key it was stored for
SlotOf(table, key) == {e \in table : index(e.key) = index(key)}

\* TranspositionTable::try_get_stored_move: the move of the slot's entry
try_get_stored_move(table, key) ==
    IF SlotOf(table, key) = {} THEN [some |-> FALSE, mv |-> NullMove]
    ELSE [some |-> TRUE, mv |-> (CHOOSE e \in SlotOf(table, key) : TRUE).mv]

\* TranspositionTable::lookup_evaluation on the slot of the key
TT_lookup_evaluation(table, key, depth, ply_from_root, alpha, beta) ==
    lookup_evaluation(SlotOf(table, key), key, depth, ply_from_root, alpha, beta)

\* TranspositionTable::store_evaluation: the slot's entry is replaced
TT_store_evaluation(table, mv, key, depth, num_ply_searched, eval, eval_type) ==
    store_evaluation(table \ SlotOf(table, key), mv, key, depth, num_ply_searched, eval,
                     eval_type)

\* keys of two positions that fall into the same slot
TableKeys == {5, 5 + num_entries}

\* the move found best for the position of a key
KeyMove(key) == IF key = 5 THEN 1804 ELSE 2324

TableDepths == {1, 3}

TableEvals == {-1, 120, -99990}

TableProbeDepth == 2

TableWindows == {<<NEGATIVE_INFINITY, POSITIVE_INFINITY>>, <<0, 200>>}

tableIdle ==
    <<overflow_checks, board, panicked, moves, stack, made, engineVars, searcher, spc,
      search_depth, nsearch, run>>

\* Searcher::search at the end of a node: store_evaluation of the node's move
TableStore(key, depth, eval, eval_type) ==
    /\ transposition_table' =
           TT_store_evaluation(transposition_table, KeyMove(key), key, depth, 0, eval,
                               eval_type)
    /\ op' = OpOf("store", key, KeyMove(key), "ok",
                  [depth |-> depth, eval |-> eval, eval_type |-> eval_type])
    /\ ret' = NoRet
    /\ UNCHANGED tableIdle

\* Searcher::search at the head of a node: the probe of the table. A value
\* other than LOOKUP_FAILED is returned as the node's value; otherwise the
\* node is searched and the slot's move is taken as the hash move.
TableProbe(key, ply_from_root, window) ==
    /\ \E tt_val \in {TT_lookup_evaluation(transposition_table, key, TableProbeDepth,
                                            ply_from_root, window[1], window[2])} :
        ret' = [hit |-> tt_val # LOOKUP_FAILED, value |-> tt_val,
                hash_move |-> try_get_stored_move(transposition_table, key)]
    /\ op' = OpOf("probe", key, 0, "ok",
                  [depth |-> TableProbeDepth, ply_from_root |-> ply_from_root,
                   alpha |-> window[1], beta |-> window[2]])
    /\ UNCHANGED <<transposition_table, tableIdle>>

NextTable ==
    \/ \E key \in TableKeys, depth \in TableDepths, eval \in TableEvals,
          eval_type \in {EXACT, LOWER_BOUND, UPPER_BOUND} :
            TableStore(key, depth, eval, eval_type)
    \/ \E key \in TableKeys, ply_from_root \in {0, 2}, window \in TableWindows :
            TableProbe(key, ply_from_root, window)

SpecTable == InitEngine /\ [][NextTable]_vars

\* the entries a probe of the key at the depth may use: stored for the key,
\* deep enough
Usable(table, key, depth) == {e \in table : e.key = key /\ e.depth >= depth}

\* the score of an entry as seen from a node ply_from_root plies below the root
ScoreAt(e, ply_from_root) ==
    IF is_mate_score(e.value)
    THEN (IF e.value > 0 THEN e.value - ply_from_root ELSE e.value + ply_from_root)
    ELSE e.value

\* the entry answers the probe: exact, or a bound outside the window
Answers(e, ply_from_root, alpha, beta) ==
    \/ e.node_type = EXACT
    \/ e.node_type = UPPER_BOUND /\ ScoreAt(e, ply_from_root) <= alpha
    \/ e.node_type = LOWER_BOUND /\ ScoreAt(e, ply_from_root) >= beta

\* C21: a probe whose slot holds an entry of the probed key with stored depth
\* at least the probe's returns the stored ply-corrected score when the entry
\* is EXACT, whatever the score, when it is UPPER_BOUND with score <= alpha,
\* or LOWER_BOUND with score >= beta; every other probe is a miss.
C21_ProbeHonoursEntry ==
    (op.name = "probe") =>
        LET a == op.before
            good == {e \in Usable(transposition_table, op.arg, a.depth) :
                        Answers(e, a.ply_from_root, a.alpha, a.beta)}
        IN  /\ ret.hit = (good # {})
            /\ \A e \in good : ret.value = ScoreAt(e, a.ply_from_root)

\* C22: a probe for a key returns data only from an entry stored for that key:
\* a score only when the slot's entry has the key, and a hash move only when
\* it is the move of an entry with the key.
C22_ProbeHitsOnKeyMatch ==
    (op.name = "probe") =>
        /\ ret.hit => \E e \in transposition_table : e.key = op.arg
        /\ ret.hash_move.some =>
              \E e \in transposition_table : e.key = op.arg /\ e.mv = ret.hash_move.mv


\* ---------------------------------------------------------------------------
\* The repetition table of the searcher: frames pushed and popped as the
\* search enters and leaves nodes
\* ---------------------------------------------------------------------------

\* frames pushed and not popped
MaxPush == 3

RepKeys == {11, 12}

repIdle ==
    <<overflow_checks, board, moves, made, engineVars, transposition_table, spc,
      search_depth, nsearch, run>>

\* self.repetition_table.push(key, reset) on entering a node; stack keeps the
\* frames pushed and not yet popped
RepPush(hash, reset) ==
    /\ ~panicked
    /\ Len(stack) < MaxPush
    /\ \E r \in {RepetitionTable_push(searcher.repetition_table, hash, reset,
                                       overflow_checks)} :
        /\ searcher' = [searcher EXCEPT !.repetition_table =
                                             IF r.ok THEN r.t ELSE @]
        /\ panicked' = ~r.ok
        /\ op' = OpOf("push", hash, 0, IF r.ok THEN "ok" ELSE "panic", reset)
    /\ stack' = Append(stack, [hash |-> hash, reset |-> reset])
    /\ ret' = NoRet
    /\ UNCHANGED repIdle

\* self.repetition_table.try_pop() on leaving a node; the pops below an empty
\* table are bounded as well
RepTryPop ==
    /\ ~panicked
    /\ searcher.repetition_table.count > USIZE_MAX - MaxPush
    /\ \E r \in {RepetitionTable_try_pop(searcher.repetition_table, overflow_checks)} :
        /\ searcher' = [searcher EXCEPT !.repetition_table =
                                             IF r.ok THEN r.t ELSE @]
        /\ panicked' = ~r.ok
        /\ op' = OpOf("try_pop", 0, 0, IF r.ok THEN "ok" ELSE "panic", Len(stack))
    /\ stack' = PopBack(stack)
    /\ ret' = NoRet
    /\ UNCHANGED repIdle

\* self.repetition_table.contains(key)
RepContains(hash) ==
    /\ ~panicked
    /\ \E r \in {RepetitionTable_contains(searcher.repetition_table, hash)} :
        /\ panicked' = ~r.ok
        /\ ret' = [found |-> r.ok /\ r.found]
        /\ op' = OpOf("contains", hash, 0, IF r.ok THEN "ok" ELSE "panic", Len(stack))
    /\ UNCHANGED <<searcher, stack, repIdle>>

NextRepetition ==
    \/ \E hash \in RepKeys, reset \in BOOLEAN : RepPush(hash, reset)
    \/ RepTryPop
    \/ \E hash \in RepKeys : RepContains(hash)

SpecRepetition == InitEngine /\ [][NextRepetition]_vars

\* the window of the frames: from the last frame pushed with reset (that frame
\* included), or from the bottom when there is none, to the top
WindowStart(frames) ==
    IF \E i \in DOMAIN frames : frames[i].reset
    THEN CHOOSE i \in DOMAIN frames :
            frames[i].reset /\ \A j \in DOMAIN frames : frames[j].reset => j <= i
    ELSE 1

InWindow(frames, hash) ==
    \E i \in WindowStart(frames)..Len(frames) : frames[i].hash = hash

\* C23: after any sequence of push and try_pop, contains(k) is true exactly
\* when k is one of the keys from the window start to the top, the window
\* starting at the most recent frame still present that was pushed with reset.
C23_ContainsScansWindow ==
    (op.name = "contains") => (op.result = "ok" /\ ret.found = InWindow(stack, op.arg))

\* C24: try_pop on an empty repetition table raises no error and no underflow
\* and leaves the table empty, with count 0.
C24_PopOnEmptyTolerated ==
    [][(op'.name = "try_pop" /\ stack = <<>> /\ searcher.repetition_table.count = 0)
        => (op'.result = "ok" /\ searcher'.repetition_table.count = 0)]_vars


\* ---------------------------------------------------------------------------
\* The killer moves of MoveOrdering: two slots for each ply
\* ---------------------------------------------------------------------------

MAX_KILLER_MOVE_PLY == 32

\* killer_moves[ply]: searcher.killer_moves keeps the slots that hold a move,
\* every other slot holds the null move
KillersAt(killer_moves, ply) ==
    LET slot(name) == {k \in killer_moves : k.ply = ply /\ k.slot = name}
        held(name) == IF slot(name) = {} THEN NullMove
                      ELSE (CHOOSE k \in slot(name) : TRUE).mv
    IN  [move_a |-> held("a"), move_b |-> held("b")]

KillersPut(killer_moves, ply, killers) ==
    {k \in killer_moves : k.ply # ply}
    \cup (IF killers.move_a = NullMove THEN {}
          ELSE {[ply |-> ply, slot |-> "a", mv |-> killers.move_a]})
    \cup (IF killers.move_b = NullMove THEN {}
          ELSE {[ply |-> ply, slot |-> "b", mv |-> killers.move_b]})

\* a Killers::add that shifts and installs without looking at slot A
Killers_add_unconditionally(killers, mv) == [move_a |-> mv, move_b |-> killers.move_a]

\* Killers::add
Killers_add(killers, mv) ==
    IF mv # killers.move_a
    THEN [move_a |-> mv, move_b |-> killers.move_a]
    ELSE killers

KillerPlies == {0, 1, MAX_KILLER_MOVE_PLY}

KillerMoves == {1804, 2324, 1421}

\* Searcher::search at a cutoff by a quiet move: the move is added to the
\* killers of the ply when the ply is below MAX_KILLER_MOVE_PLY
KillerAdd(ply_from_root, mv) ==
    /\ searcher' =
          [searcher EXCEPT !.killer_moves =
              IF ply_from_root < MAX_KILLER_MOVE_PLY
              THEN KillersPut(@, ply_from_root,
                              Killers_add(KillersAt(@, ply_from_root), mv))
              ELSE @]
    /\ op' = OpOf("add", ply_from_root, mv, "ok", KillersAt(searcher.killer_moves, ply_from_root))
    /\ ret' = NoRet
    /\ UNCHANGED <<overflow_checks, board, panicked, moves, stack, made, engineVars,
                   transposition_table, spc, search_depth, nsearch, run>>

NextKillers == \E ply_from_root \in KillerPlies, mv \in KillerMoves : KillerAdd(ply_from_root, mv)

SpecKillers == InitEngine /\ [][NextKillers]_vars

\* C25: after an add of a move to the slots of a ply, slot A holds the added
\* move, slot B holds the move that was in slot A before the last change of A
\* (the move A held before this add when the add changed A, else what B held),
\* the two slots do not hold the same move, and adding the move already in
\* slot A changes neither slot.
C25_KillersShift ==
    (op.name = "add" /\ op.arg < MAX_KILLER_MOVE_PLY) =>
        LET now == KillersAt(searcher.killer_moves, op.arg)
        IN  /\ now.move_a = op.mv
            /\ now.move_a # now.move_b
            /\ now.move_b = (IF op.before.move_a = op.mv THEN op.before.move_b
                             ELSE op.before.move_a)
            /\ (op.before.move_a = op.mv => now = op.before)

\* the move in slot A is added again while slot B holds another move
C25_Witness ==
    /\ op.name = "add"
    /\ op.arg < MAX_KILLER_MOVE_PLY
    /\ op.before.move_a = op.mv
    /\ op.before.move_b # NullMove
    /\ KillersAt(searcher.killer_moves, op.arg) = op.before

\* castling moves are generated on positions with kings and rooks at home
NextCastle ==
    \/ \E name \in CastleFenNames : LoadFen(name)
    \/ \E captures_only \in BOOLEAN : Generate(captures_only)
    \/ \E i \in 1..Len(moves), in_search \in BOOLEAN : MakeGenerated(i, in_search)
    \/ Unmake

SpecCastle == InitBoard /\ [][NextCastle]_vars

\* the rules of chess for castling on the wing of the target square: the king
\* of the side to move stands on its home square and is not attacked, the right
\* for the wing is set, the squares the king crosses and lands on are empty and
\* not attacked, and on the long side the b-file square is empty as well
CastleAllowed(b, mv) ==
    LET white == b.white_to_move
        home == IF white THEN 0 ELSE 56
        short == file_of_square(target_square(mv)) = 6
        travel == IF short THEN {home + 5, home + 6} ELSE {home + 3, home + 2}
    IN  /\ start_square(mv) = home + 4
        /\ file_of_square(target_square(mv)) \in {2, 6}
        /\ b.squares[home + 4] = PieceOf(KING, IF white THEN WHITE ELSE BLACK)
        /\ ~Attacked(b.squares, home + 4, ~white)
        /\ IF short THEN can_castle_kingside(b.state, white)
           ELSE can_castle_queenside(b.state, white)
        /\ \A sq \in travel : b.squares[sq] = NONE /\ ~Attacked(b.squares, sq, ~white)
        /\ short \/ b.squares[home + 1] = NONE

\* C27: every castling move in the list generate_moves returns is allowed by
\* the rules: the side to move is not in check, the right for the wing is set,
\* the king's travel squares are empty and not attacked, and for the long side
\* the b-file square is empty.
C27_CastlingOnlyWhenAllowed ==
    (op.name = "generate" /\ op.result = "ok") =>
        \A i \in 1..Len(moves) :
            move_flag(moves[i]) = CASTLE_FLAG => CastleAllowed(board, moves[i])

\* evaluation.rs: the piece values
PAWN_VALUE == 100
KNIGHT_VALUE == 300
BISHOP_VALUE == 320
ROOK_VALUE == 500
QUEEN_VALUE == 900

\* MaterialInfo::new, the counts and the score (endgame_t, a float, is not
\* read by the material score)
MaterialInfo_new(num_pawns, num_knights, num_bishops, num_queens, num_rooks) ==
    [material_score |-> num_pawns * PAWN_VALUE + num_knights * KNIGHT_VALUE
                        + num_bishops * BISHOP_VALUE + num_rooks * ROOK_VALUE
                        + num_queens * QUEEN_VALUE,
     num_pawns |-> num_pawns,
     num_majors |-> num_rooks + num_queens,
     num_minors |-> num_bishops + num_knights,
     num_bishops |-> num_bishops,
     num_queens |-> num_queens,
     num_rooks |-> num_rooks]

\* Evaluation::get_material_info: the counts are read from the board's
\* per-type piece lists, color_idx being 0 for White and 1 for Black
get_material_info(b, color_idx) ==
    MaterialInfo_new(b.pawns[color_idx].num_pieces,
                     b.knights[color_idx].num_pieces,
                     b.bishops[color_idx].num_pieces,
                     b.queens[color_idx].num_pieces,
                     b.rooks[color_idx].num_pieces)

\* the positions the material is counted on
MaterialFenNames == {"start", "capture", "promote", "castle"}

\* Board::evaluate, the step that sets white_eval.material_score and
\* black_eval.material_score from get_material_info
EvaluateMaterial ==
    /\ ~panicked
    /\ op.name # "material"
    /\ op' = OpOf("material", "", 0, "ok", BoardNew)
    /\ ret' = [white_material |-> get_material_info(board, 0).material_score,
               black_material |-> get_material_info(board, 1).material_score]
    /\ UNCHANGED <<overflow_checks, board, panicked, moves, stack, made, engineVars, searchVars>>

NextMaterial ==
    \/ \E name \in MaterialFenNames : LoadFen(name)
    \/ \E captures_only \in BOOLEAN : Generate(captures_only)
    \/ \E i \in 1..Len(moves), in_search \in BOOLEAN : MakeGenerated(i, in_search)
    \/ Unmake
    \/ EvaluateMaterial

SpecMaterial == InitBoard /\ [][NextMaterial]_vars

\* the pieces of a kind and colour that stand on the board
CountOn(squares, type, white) ==
    Cardinality({s \in Squares : squares[s] = PieceOf(type, IF white THEN WHITE ELSE BLACK)})

MaterialOn(squares, white) ==
    100 * CountOn(squares, PAWN, white) + 300 * CountOn(squares, KNIGHT, white)
    + 320 * CountOn(squares, BISHOP, white) + 500 * CountOn(squares, ROOK, white)
    + 900 * CountOn(squares, QUEEN, white)

\* C28: in every position reached by load_from_fen, make_move and unmake_move
\* the material score evaluate uses for each side is 100 P + 300 N + 320 B +
\* 500 R + 900 Q over that side's pieces standing on the board.
C28_MaterialMatchesBoard ==
    op.name = "material" =>
        /\ ret.white_material = MaterialOn(board.squares, TRUE)
        /\ ret.black_material = MaterialOn(board.squares, FALSE)

====
